---- MODULE Spec2Model ----
\* Model of the openchami application layer
\* (src/vtds_application_openchami/private/application.py): the Application
\* object, the cluster / provider directories it queries, and the connection
\* sets it drives.
\*
\* Strings that the code sorts or formats (node class names, XNAMEs) are
\* sequences of character codes, so that Python's string order and the
\* "%sn%d" formatting are computed and not assumed.  Strings that are only
\* compared for equality (network names, tags, modes) are TLA+ strings.
\* A Python dict is a sequence of entries in insertion order.
EXTENDS Integers, Sequences, FiniteSets, TLC

VARIABLES
    virtual_nodes,     \* cluster layer node directory: classes, per class info, node
                       \* names, and the set_node_node_name calls of the last consolidate()
    virtual_blades,    \* provider layer blade directory: per blade class its XNAME
                       \* list and its number of blades
    virtual_networks,  \* cluster layer network directory, in enumeration order:
                       \* per network its name, its application metadata and the
                       \* blade classes that have addressing on it
    config,            \* self.config, the 'application' configuration
    prepared,          \* self.prepared
    deploy_mode,       \* self.deploy_mode
    tpl_data,          \* self.tpl_data
    pc,                \* position of the running API call ("idle" between calls)
    frame,             \* local variables of the running API call
    outcome,           \* the last finished call: what it returned or raised
    connections,       \* connection sets currently open
    requests,          \* copy_to / run_command requests the last deploy() issued
    calls              \* number of consolidate() and deploy() calls made so far

vars == <<virtual_nodes, virtual_blades, virtual_networks, config, prepared,
          deploy_mode, tpl_data, pc, frame, outcome, connections, requests,
          calls>>

-----------------------------------------------------------------------------
\* Bounds of the model.

MaxCount == 2        \* node_count of a node class is in 0..MaxCount
MaxCapacity == 2     \* instance_capacity of a node class is in 1..MaxCapacity
MaxXnames == 2       \* a blade class lists 0..MaxXnames XNAMEs
MaxBuildOrder == 3   \* build_order lists 0..MaxBuildOrder tags
MaxConsolidates == 2 \* consolidate() is called at most MaxConsolidates times in a run
MaxDeploys == 1      \* deploy() is called at most MaxDeploys times in a run

-----------------------------------------------------------------------------
\* Character strings.

ch_0 == 48      \* "0", the first digit that "%d" writes
ch_n == 110     \* "n", the separator that "%sn%d" writes

\* Python's None, where a string is expected
None == "<None>"

Min(a, b) == IF a < b THEN a ELSE b

\* Python's str "<": code point by code point, a proper prefix is smaller.
StrLess(s, t) ==
    \E k \in 1..(Min(Len(s), Len(t)) + 1) :
        /\ \A j \in 1..(k - 1) : s[j] = t[j]
        /\ \/ k > Len(s) /\ k <= Len(t)
           \/ k <= Len(s) /\ k <= Len(t) /\ s[k] < t[k]

\* "%d" % n for n >= 0
RECURSIVE FormatInt(_)
FormatInt(n) ==
    IF n < 10 THEN <<ch_0 + n>>
    ELSE FormatInt(n \div 10) \o <<ch_0 + (n % 10)>>

\* list.sort() on a list of strings (stable insertion into the sorted prefix)
RECURSIVE SortInsert(_, _)
SortInsert(x, sorted) ==
    IF sorted = <<>> THEN <<x>>
    ELSE IF StrLess(x, Head(sorted)) THEN <<x>> \o sorted
    ELSE <<Head(sorted)>> \o SortInsert(x, Tail(sorted))

RECURSIVE ListSort(_)
ListSort(list) ==
    IF list = <<>> THEN <<>>
    ELSE SortInsert(list[Len(list)], ListSort(SubSeq(list, 1, Len(list) - 1)))

Range(seq) == {seq[i] : i \in 1..Len(seq)}

\* every sequence without repeats over the elements of S
RECURSIVE Orderings(_)
Orderings(S) ==
    IF S = {} THEN {<<>>}
    ELSE UNION {{<<x>> \o rest : rest \in Orderings(S \ {x})} : x \in S}

Enumerations(S) == UNION {Orderings(T) : T \in SUBSET S}

-----------------------------------------------------------------------------
\* Exceptions and call outcomes.

NoException == [type |-> "none", msg |-> ""]
ContextualError(msg) == [type |-> "ContextualError", msg |-> msg]
IndexError == [type |-> "IndexError", msg |-> "list index out of range"]
KeyError == [type |-> "KeyError", msg |-> "key"]
AttributeError == [type |-> "AttributeError", msg |-> "'NoneType' object has no attribute"]

Return(value) == [raised |-> NoException, value |-> <<value>>]
Raise(exception) == [raised |-> exception, value |-> <<>>]

Finished(op, args, res) ==
    [op |-> op, args |-> args, raised |-> res.raised, value |-> res.value]

NoCall == [op |-> "none", args |-> <<>>, raised |-> NoException, value |-> <<>>]

-----------------------------------------------------------------------------
\* The node directory (cluster layer, virtual_nodes): the classes in
\* enumeration order; per class its application metadata (node_role), its
\* node count, its host blade binding and the networks it is connected to;
\* the node names.

\* node class names "a", "ab", "b"
NodeClassNames == {<<97>>, <<97, 98>>, <<98>>}

node_count(node_class) == virtual_nodes.info[node_class].node_count

node_host_blade_info(node_class) ==
    [blade_class |-> virtual_nodes.info[node_class].blade_class,
     instance_capacity |-> virtual_nodes.info[node_class].instance_capacity]

-----------------------------------------------------------------------------
\* Application.__nid_from_class_instance

RECURSIVE NidLoop(_, _, _, _)
NidLoop(classes, class_name, instance, base_nid) ==
    IF classes = <<>>
    THEN Raise(ContextualError("unrecognized node class"))
    ELSE IF class_name = Head(classes)
    THEN Return(base_nid + instance)
    ELSE NidLoop(Tail(classes), class_name, instance,
                 base_nid + node_count(Head(classes)))

NidSkipsRangeCheck(classes, class_name, instance) ==
    NidLoop(ListSort(classes), class_name, instance, 1)

NidCountsUnsorted(classes, class_name, instance) ==
    IF instance >= node_count(class_name)
    THEN Raise(ContextualError("instance number out of range"))
    ELSE NidLoop(classes, class_name, instance, 1)

nid_from_class_instance(classes, class_name, instance) ==
    IF instance >= node_count(class_name)
    THEN Raise(ContextualError("instance number out of range"))
    ELSE NidLoop(ListSort(classes), class_name, instance, 1)

-----------------------------------------------------------------------------
\* The network directory (cluster layer, virtual_networks): a sequence of
\* [name, metadata] in enumeration order; a metadata tag is "true", "false"
\* or "absent"; metadata.coredhcp is <<>> when there is none, else
\* <<[pool]>>, pool <<>> or <<[start, end]>>.

network_names == [i \in 1..Len(virtual_networks) |-> virtual_networks[i].name]

application_metadata(network_name) ==
    LET i == CHOOSE k \in 1..Len(virtual_networks) :
                 virtual_networks[k].name = network_name
    IN virtual_networks[i].metadata

\* virtual_networks.blade_class_addressing(blade_class, network_name) is not
\* None: the blade class has addressing on the network (a name the directory
\* does not have, None included, gives no addressing)
HasBladeAddressing(blade_class, network_name) ==
    \E k \in 1..Len(virtual_networks) :
        /\ virtual_networks[k].name = network_name
        /\ blade_class \in virtual_networks[k].blade_classes

\* dict.get(tag, False), as a truth value
MetadataGet(metadata, tag) == metadata[tag] = "true"

-----------------------------------------------------------------------------
\* Application.__tagged_network, __cluster_network, __management_network
\* (the warning printed for more than one tagged network changes no state)

TaggedNetworks(tag) ==
    SelectSeq(network_names,
              LAMBDA network_name :
                  MetadataGet(application_metadata(network_name), tag))

TaggedNetworkTakesLast(tag, validate) ==
    LET tagged_networks == TaggedNetworks(tag)
    IN IF Len(tagged_networks) < 1 /\ validate
       THEN Raise(ContextualError("there is no Virtual Network with the tag"))
       ELSE IF Len(tagged_networks) < 1
       THEN Raise(IndexError)
       ELSE Return(tagged_networks[Len(tagged_networks)])

tagged_network(tag, validate) ==
    LET tagged_networks == TaggedNetworks(tag)
    IN IF Len(tagged_networks) < 1 /\ validate
       THEN Raise(ContextualError("there is no Virtual Network with the tag"))
       ELSE IF Len(tagged_networks) < 1
       THEN Raise(IndexError)
       ELSE Return(tagged_networks[1])

cluster_network(validate) == tagged_network("cluster_network", validate)

management_network(validate) == tagged_network("management_network", validate)

-----------------------------------------------------------------------------
\* Application.__tpl_data_quadlet_image_builders
\* config.images is <<>> when the configuration has no 'images' block, else
\* <<[builders, build_order, groups, users]>>; builders is the dict of
\* builders in declaration order, as a sequence of [name, cmds].

ImagesGet(key, default) ==
    IF config.images = <<>> THEN default ELSE config.images[1][key]

BuilderTags(builders) == [i \in 1..Len(builders) |-> builders[i].name]

ImageBuildersKeepsListed(build_order, image_builder_tags) ==
    IF \E i \in 1..Len(build_order) : build_order[i] \notin Range(image_builder_tags)
    THEN Raise(ContextualError("image build order contains an unknown image tag"))
    ELSE Return(build_order \o image_builder_tags)

ImageBuildersUnchecked(build_order, image_builder_tags) ==
    Return(build_order
           \o SelectSeq(image_builder_tags,
                        LAMBDA builder : builder \notin Range(build_order)))

ImageBuilders(build_order, image_builder_tags) ==
    IF \E i \in 1..Len(build_order) : build_order[i] \notin Range(image_builder_tags)
    THEN Raise(ContextualError("image build order contains an unknown image tag"))
    ELSE Return(build_order
                \o SelectSeq(image_builder_tags,
                             LAMBDA builder : builder \notin Range(build_order)))

tpl_data_quadlet_image_builders ==
    ImageBuilders(ImagesGet("build_order", <<>>),
                  BuilderTags(ImagesGet("builders", <<>>)))

-----------------------------------------------------------------------------
\* Application.__node_classes_by_role: the directory's classes of a role, in
\* the directory's enumeration order; a class without a role is 'management'.

NodeRole(node_class) ==
    IF virtual_nodes.info[node_class].node_role = None
    THEN "management"
    ELSE virtual_nodes.info[node_class].node_role

node_classes_by_role(role) ==
    SelectSeq(virtual_nodes.classes, LAMBDA node_class : NodeRole(node_class) = role)

-----------------------------------------------------------------------------
\* Application.__set_node_xnames

\* virtual_blades.application_metadata(blade_class).get('xnames', [])
BladeClassXnames(blade_class) == virtual_blades[blade_class].xnames

XnameNodeClassesManagementFirst ==
    node_classes_by_role("management") \o node_classes_by_role("managed")

\* node_classes, and so the keys of host_blades in insertion order
XnameNodeClasses ==
    node_classes_by_role("managed") \o node_classes_by_role("management")

\* the (node_class, instance) pairs in the order the two loops visit them
RECURSIVE XnameLoopOrder(_)
XnameLoopOrder(node_classes) ==
    IF node_classes = <<>> THEN <<>>
    ELSE [i \in 1..node_count(Head(node_classes)) |-> <<Head(node_classes), i - 1>>]
         \o XnameLoopOrder(Tail(node_classes))

\* virtual_blades.blade_count(blade_class)
blade_count(blade_class) == virtual_blades[blade_class].blade_count

\* a node name formed from blade_xname: blade_xname, "n" and a number
NamedOnBlade(node_name, blade_xname) ==
    /\ Len(node_name) > Len(blade_xname) + 1
    /\ SubSeq(node_name, 1, Len(blade_xname) + 1) = blade_xname \o <<ch_n>>

InitialXnameSlotsCarriedOver(node_classes) ==
    LET blade_classes == {node_host_blade_info(node_classes[i]).blade_class :
                             i \in 1..Len(node_classes)}
        xnames == UNION {Range(BladeClassXnames(blade_class)) :
                            blade_class \in blade_classes}
    IN [xname \in xnames |->
           Cardinality({node \in DOMAIN virtual_nodes.names :
                           NamedOnBlade(virtual_nodes.names[node], xname)})]

\* xname_slots: every XNAME of a blade class in use starts at node number 0
InitialXnameSlots(node_classes) ==
    LET blade_classes == {node_host_blade_info(node_classes[i]).blade_class :
                             i \in 1..Len(node_classes)}
        xnames == UNION {Range(BladeClassXnames(blade_class)) :
                            blade_class \in blade_classes}
    IN [xname \in xnames |-> 0]

BladeIndexByRemainder(instance, capacity) == instance % capacity

\* int(instance / capacity)
BladeIndex(instance, capacity) == instance \div capacity

\* "%sn%d" % (blade_xname, node_number)
NodeXname(blade_xname, node_number) ==
    blade_xname \o <<ch_n>> \o FormatInt(node_number)

SetNodeXnameStepKeepsSlot(node_class, instance, xname_slots) ==
    LET blade_info == node_host_blade_info(node_class)
        bl_xnames == BladeClassXnames(blade_info.blade_class)
        bl_index == BladeIndex(instance, blade_info.instance_capacity)
    IN IF bl_index > Len(bl_xnames)
       THEN Raise(ContextualError("not enough blade xnames are configured"))
       ELSE IF bl_index >= Len(bl_xnames)
       THEN Raise(IndexError)
       ELSE LET blade_xname == bl_xnames[bl_index + 1]
                node_number == xname_slots[blade_xname]
            IN Return([node_xname |-> NodeXname(blade_xname, node_number),
                       xname_slots |-> xname_slots])

\* One pass of the inner loop for (node_class, instance): the exception it
\* raises, or the XNAME it writes and the slot counters after it.
SetNodeXnameStep(node_class, instance, xname_slots) ==
    LET blade_info == node_host_blade_info(node_class)
        bl_xnames == BladeClassXnames(blade_info.blade_class)
        bl_index == BladeIndex(instance, blade_info.instance_capacity)
    IN IF bl_index > Len(bl_xnames)
       THEN Raise(ContextualError("not enough blade xnames are configured"))
       ELSE IF bl_index >= Len(bl_xnames)
       THEN Raise(IndexError)
       ELSE LET blade_xname == bl_xnames[bl_index + 1]
                node_number == xname_slots[blade_xname]
            IN Return([node_xname |-> NodeXname(blade_xname, node_number),
                       xname_slots |-> [xname_slots EXCEPT ![blade_xname] = @ + 1]])

-----------------------------------------------------------------------------
\* Application.__prepare_image_configs and the command generators.
\* A command is [cmd, arg]: "groupadd" with the group name, "useradd" with
\* the primary group, the password and the supplementary groups, or
\* "declared" for a command of the configuration.

generate_groupadd_cmd(group) ==
    IF group.name = None
    THEN Raise(ContextualError("group entry in image section is missing its name"))
    ELSE Return([cmd |-> "groupadd", arg |-> <<group.name>>])

\* md5_crypt.hash(pwd.genword(length=20)) for the generated word
Md5Crypt(word) == "$1$" \o word

user_password(user, word) ==
    IF user.password # None THEN user.password ELSE Md5Crypt(word)

generate_useradd_cmd(user, word) ==
    IF user.name = None
    THEN Raise(ContextualError("user entry in image section is missing its name"))
    ELSE Return([cmd |-> "useradd",
                 arg |-> <<user.primary_group, user_password(user, word)>>
                         \o user.supplementary_groups])

\* commands.insert(0, command)
InsertAtFront(commands, command) == <<command>> \o commands

\* dict.get(name, []) on the 'groups' / 'users' dict of the images block
EntriesFor(dict, name) ==
    IF \E i \in 1..Len(dict) : dict[i].name = name
    THEN dict[CHOOSE i \in 1..Len(dict) : dict[i].name = name].entries
    ELSE <<>>

\* the loop over groups: [raised, commands], commands as the list is when
\* the loop ends or raises
RECURSIVE InsertGroups(_, _)
InsertGroups(commands, groups) ==
    IF groups = <<>> THEN [raised |-> NoException, commands |-> commands]
    ELSE LET made == generate_groupadd_cmd(Head(groups))
         IN IF made.raised # NoException
            THEN [raised |-> made.raised, commands |-> commands]
            ELSE InsertGroups(InsertAtFront(commands, made.value[1]), Tail(groups))

\* the loop over users; words[k] is the word generated for the k-th user
RECURSIVE InsertUsers(_, _, _)
InsertUsers(commands, users, words) ==
    IF users = <<>> THEN [raised |-> NoException, commands |-> commands]
    ELSE LET made == generate_useradd_cmd(Head(users), Head(words))
         IN IF made.raised # NoException
            THEN [raised |-> made.raised, commands |-> commands]
            ELSE InsertUsers(InsertAtFront(commands, made.value[1]), Tail(users),
                             Tail(words))

\* the loop over builders from builder k on: [raised, images], images as the
\* block is when the loop ends or raises (the lists are changed in place)
RECURSIVE PrepareBuilders(_, _, _)
PrepareBuilders(images, k, words) ==
    IF k > Len(images.builders) THEN [raised |-> NoException, images |-> images]
    ELSE LET name == images.builders[k].name
             with_groups == InsertGroups(images.builders[k].cmds,
                                         EntriesFor(images.groups, name))
             with_users == InsertUsers(with_groups.commands,
                                       EntriesFor(images.users, name), words[k])
             after == [images EXCEPT !.builders[k].cmds =
                          IF with_groups.raised # NoException
                          THEN with_groups.commands ELSE with_users.commands]
         IN IF with_groups.raised # NoException
            THEN [raised |-> with_groups.raised, images |-> after]
            ELSE IF with_users.raised # NoException
            THEN [raised |-> with_users.raised, images |-> after]
            ELSE PrepareBuilders(after, k + 1, words)

PrepareImageConfigsAfresh(words) ==
    IF config.images = <<>>
    THEN [raised |-> KeyError, images |-> config.images]
    ELSE LET declared == [config.images[1] EXCEPT !.builders =
                             [k \in 1..Len(@) |->
                                 [@[k] EXCEPT !.cmds =
                                     SelectSeq(@, LAMBDA command : command.cmd = "declared")]]]
             done == PrepareBuilders(declared, 1, words)
         IN [raised |-> done.raised, images |-> <<done.images>>]

\* words[k][u]: the word generated for user u of builder k
prepare_image_configs(words) ==
    IF config.images = <<>>
    THEN [raised |-> KeyError, images |-> config.images]
    ELSE LET done == PrepareBuilders(config.images[1], 1, words)
         IN [raised |-> done.raised, images |-> <<done.images>>]

-----------------------------------------------------------------------------
\* Application.consolidate, after __set_node_xnames.
\* config.discovery_networks is <<>> when the configuration has no such block,
\* else <<dict>>, the dict a sequence of [name, network_name, network_cidr,
\* redfish_username, redfish_password] with None for what is not set.

DiscoveryNetworks ==
    IF config.discovery_networks = <<>> THEN <<>> ELSE config.discovery_networks[1]

KeepsAllDiscoveryNetworks(discovery_networks, available_networks) ==
    discovery_networks

KeepsOnlyNamedDiscoveryNetworks(discovery_networks, available_networks) ==
    SelectSeq(discovery_networks,
              LAMBDA network : network.network_name \in Range(available_networks))

\* filtered_discovery_networks
FilterDiscoveryNetworks(discovery_networks, available_networks) ==
    SelectSeq(discovery_networks,
              LAMBDA network :
                  \/ network.network_name = None
                  \/ network.network_name \in Range(available_networks))

\* the password loop; words[i] is the word generated for the i-th network
ConjurePasswords(discovery_networks, words) ==
    [i \in 1..Len(discovery_networks) |->
        [discovery_networks[i] EXCEPT !.redfish_password =
            IF @ # None THEN @ ELSE words[i]]]

\* the generated words (pwd.genword) one call may draw
GeneratedWords == {"word0", "word1"}

-----------------------------------------------------------------------------
\* Application.validate and its checks.  A block of the configuration is <<>>
\* when the configuration does not have it, else <<block>>; a field of a
\* block that is not set is None (host.node_class, a node class name, is <<>>
\* or <<name>>).

\* a check that passed is followed by the next one
Then(first, second) == IF first.raised # NoException THEN first ELSE second

\* the domain names the model uses that domain_re matches
ConformingDomainNames == {"cluster.example.com"}

validate_host_info ==
    IF config.host = <<>>
    THEN Raise(ContextualError("no 'host' information block"))
    ELSE LET host == config.host[1]
         IN IF host.network = None
            THEN Raise(ContextualError("no 'network' element in the 'host' block"))
            ELSE IF host.network \notin Range(network_names)
            THEN Raise(ContextualError("unknown network name in the 'host' block"))
            ELSE IF host.node_class = <<>>
            THEN Raise(ContextualError("no 'node_class' element in the 'host' block"))
            ELSE IF host.node_class[1] \notin Range(virtual_nodes.classes)
            THEN Raise(ContextualError("unknown node class name in the 'host' block"))
            ELSE IF host.node_name = None
            THEN Raise(ContextualError("no 'node_name' element in the 'host' block"))
            ELSE Return(None)

cluster_net_coredhcp ==
    LET cluster_net == cluster_network(FALSE)
    IN IF cluster_net.raised # NoException THEN cluster_net
       ELSE LET coredhcp == application_metadata(cluster_net.value[1]).coredhcp
            IN IF coredhcp = <<>>
               THEN Raise(ContextualError("the cluster network has no coredhcp configuration"))
               ELSE IF coredhcp[1].pool = <<>>
               THEN Raise(ContextualError("the cluster network has no coredhcp pool"))
               ELSE IF coredhcp[1].pool[1].start = None
               THEN Raise(ContextualError("the cluster network has no coredhcp pool start"))
               ELSE IF coredhcp[1].pool[1].end = None
               THEN Raise(ContextualError("the cluster network has no coredhcp pool end"))
               ELSE Return(coredhcp[1])

dns_config ==
    IF config.dns = <<>>
    THEN Raise(ContextualError("no DNS configuration block"))
    ELSE IF config.dns[1].site = None
    THEN Raise(ContextualError("no 'site' value in the DNS configuration block"))
    ELSE IF config.dns[1].public = None
    THEN Raise(ContextualError("no 'public' value in the DNS configuration block"))
    ELSE Return(config.dns[1])

validate_cluster_info ==
    IF config.cluster = <<>>
    THEN Raise(ContextualError("no 'cluster' information block"))
    ELSE IF config.cluster[1].domain_name = None
    THEN Raise(ContextualError("no 'domain_name' element in the 'cluster' block"))
    ELSE IF config.cluster[1].domain_name \notin ConformingDomainNames
    THEN Raise(ContextualError("non-conforming 'domain_name'"))
    ELSE Then(cluster_network(TRUE),
         Then(management_network(TRUE),
         Then(cluster_net_coredhcp,
         Then(dns_config, Return(None)))))

RECURSIVE ValidateDiscoveryNetworkAllowsBoth(_)
ValidateDiscoveryNetworkAllowsBoth(discovery_networks) ==
    IF discovery_networks = <<>> THEN Return(None)
    ELSE LET network == Head(discovery_networks)
         IN IF network.network_name = None /\ network.network_cidr = None
            THEN Raise(ContextualError("neither a network name nor a network CIDR"))
            ELSE IF network.redfish_username = None
            THEN Raise(ContextualError("discovery network has no RedFish username"))
            ELSE IF network.redfish_password = None
            THEN Raise(ContextualError("discovery network has no RedFish password"))
            ELSE ValidateDiscoveryNetworkAllowsBoth(Tail(discovery_networks))

\* the loop over the discovery networks, from the first one
RECURSIVE ValidateDiscoveryNetwork(_)
ValidateDiscoveryNetwork(discovery_networks) ==
    IF discovery_networks = <<>> THEN Return(None)
    ELSE LET network == Head(discovery_networks)
         IN IF network.network_name = None /\ network.network_cidr = None
            THEN Raise(ContextualError("neither a network name nor a network CIDR"))
            ELSE IF network.network_name # None /\ network.network_cidr # None
            THEN Raise(ContextualError("both a network name and a network CIDR"))
            ELSE IF network.redfish_username = None
            THEN Raise(ContextualError("discovery network has no RedFish username"))
            ELSE IF network.redfish_password = None
            THEN Raise(ContextualError("discovery network has no RedFish password"))
            ELSE ValidateDiscoveryNetwork(Tail(discovery_networks))

validate_discovery_networks ==
    IF config.discovery_networks = <<>>
    THEN Raise(ContextualError("no 'discovery_networks' information block"))
    ELSE IF config.discovery_networks[1] = <<>>
    THEN Raise(ContextualError("no networks described in 'discovery_networks'"))
    ELSE ValidateDiscoveryNetwork(config.discovery_networks[1])

-----------------------------------------------------------------------------
\* Template data, as far as this module computes it: the contents of the
\* sections 'bmc_mappings', 'managed_macs' and 'hosts' and the node
\* addresses, which are read from the layers' addressing objects, are not
\* carried.

\* virtual_nodes.node_class_addressing(node_class, network) is not None
HasNodeAddressing(node_class, network) ==
    /\ node_class # <<>>
    /\ node_class[1] \in Range(virtual_nodes.classes)
    /\ network \in virtual_nodes.info[node_class[1]].networks

\* dict[key] = value, the dict a sequence of [key, value] in insertion
\* order: a key the dict has keeps its place and takes the new value
DictPut(dict, key, value) ==
    IF \E i \in 1..Len(dict) : dict[i].key = key
    THEN [i \in 1..Len(dict) |->
             IF dict[i].key = key THEN [key |-> key, value |-> value] ELSE dict[i]]
    ELSE Append(dict, [key |-> key, value |-> value])

\* a dict comprehension over items, a sequence of [key, value]
RECURSIVE DictFrom(_, _)
DictFrom(items, dict) ==
    IF items = <<>> THEN dict
    ELSE DictFrom(Tail(items), DictPut(dict, Head(items).key, Head(items).value))

\* Application.__bmc_mappings, as far as it can fail: for a blade class that
\* has XNAMEs and a named discovery network on which the class has no
\* addressing, blade_class_addressing is None and .instances() fails
bmc_mappings ==
    IF \E blade_class \in DOMAIN virtual_blades :
          /\ BladeClassXnames(blade_class) # <<>>
          /\ \E i \in 1..Len(DiscoveryNetworks) :
                /\ DiscoveryNetworks[i].network_name # None
                /\ ~HasBladeAddressing(blade_class, DiscoveryNetworks[i].network_name)
    THEN Raise(AttributeError)
    ELSE Return(None)

\* the keys of the dict __tpl_data returns
TplDataKeys == {"host_node_class", "discovery_networks", "hosts", "bmc_mappings"}

\* Application.__tpl_data
tpl_data_base ==
    IF config.host = <<>>
    THEN Raise(KeyError)
    ELSE IF ~HasNodeAddressing(config.host[1].node_class, config.host[1].network)
    THEN Raise(ContextualError("unable to find addressing for the host network"))
    ELSE IF bmc_mappings.raised # NoException
    THEN bmc_mappings
    ELSE Return([host_node_class |-> config.host[1].node_class,
                 discovery_networks |->
                     [i \in 1..Len(DiscoveryNetworks) |->
                         [name |-> DiscoveryNetworks[i].name,
                          external |-> DiscoveryNetworks[i].network_name # None,
                          redfish_username |-> DiscoveryNetworks[i].redfish_username,
                          redfish_password |-> DiscoveryNetworks[i].redfish_password]]])

\* Application.__bmc_xnames_by_node_class: the classes that have XNAMEs, in
\* the order of node_classes
bmc_xnames_by_node_class(node_classes) ==
    SelectSeq(node_classes,
              LAMBDA node_class :
                  BladeClassXnames(node_host_blade_info(node_class).blade_class) # <<>>)

TplNodeIndexesByInstance(managed_node_classes, node_class, instance) ==
    LET nid == nid_from_class_instance(managed_node_classes, node_class, instance)
        bl_xnames == BladeClassXnames(node_host_blade_info(node_class).blade_class)
        bmc_instance == instance
        cluster_net == cluster_network(FALSE)
        management_net == management_network(FALSE)
    IN IF nid.raised # NoException THEN nid
       ELSE IF bmc_instance >= Len(bl_xnames) THEN Raise(IndexError)
       ELSE IF cluster_net.raised # NoException THEN cluster_net
       ELSE IF management_net.raised # NoException THEN management_net
       ELSE Return([name |-> virtual_nodes.names[<<node_class, instance>>],
                    nid |-> nid.value[1],
                    xname |-> virtual_nodes.names[<<node_class, instance>>],
                    bmc_xname |-> bl_xnames[bmc_instance + 1],
                    cluster_net_interface |-> cluster_net.value[1],
                    management_net_interface |-> management_net.value[1],
                    node_class |-> node_class])

TplNodeKeepsClusterName(managed_node_classes, node_class, instance) ==
    LET nid == nid_from_class_instance(managed_node_classes, node_class, instance)
        bl_xnames == BladeClassXnames(node_host_blade_info(node_class).blade_class)
        bmc_instance == BladeIndex(instance,
                                   node_host_blade_info(node_class).instance_capacity)
        cluster_net == cluster_network(FALSE)
        management_net == management_network(FALSE)
    IN IF nid.raised # NoException THEN nid
       ELSE IF bmc_instance >= Len(bl_xnames) THEN Raise(IndexError)
       ELSE IF cluster_net.raised # NoException THEN cluster_net
       ELSE IF management_net.raised # NoException THEN management_net
       ELSE Return([name |-> node_class \o <<45>> \o FormatInt(instance),
                    nid |-> nid.value[1],
                    xname |-> node_class \o <<45>> \o FormatInt(instance),
                    bmc_xname |-> bl_xnames[bmc_instance + 1],
                    cluster_net_interface |-> cluster_net.value[1],
                    management_net_interface |-> management_net.value[1],
                    node_class |-> node_class])

\* one entry of the 'nodes' list; its fields are evaluated in this order
TplNode(managed_node_classes, node_class, instance) ==
    LET nid == nid_from_class_instance(managed_node_classes, node_class, instance)
        bl_xnames == BladeClassXnames(node_host_blade_info(node_class).blade_class)
        bmc_instance == BladeIndex(instance,
                                   node_host_blade_info(node_class).instance_capacity)
        cluster_net == cluster_network(FALSE)
        management_net == management_network(FALSE)
    IN IF nid.raised # NoException THEN nid
       ELSE IF bmc_instance >= Len(bl_xnames) THEN Raise(IndexError)
       ELSE IF cluster_net.raised # NoException THEN cluster_net
       ELSE IF management_net.raised # NoException THEN management_net
       ELSE Return([name |-> virtual_nodes.names[<<node_class, instance>>],
                    nid |-> nid.value[1],
                    xname |-> virtual_nodes.names[<<node_class, instance>>],
                    bmc_xname |-> bl_xnames[bmc_instance + 1],
                    cluster_net_interface |-> cluster_net.value[1],
                    management_net_interface |-> management_net.value[1],
                    node_class |-> node_class])

\* the list comprehension over todo: the first exception, or the list
RECURSIVE TplNodes(_, _, _)
TplNodes(managed_node_classes, todo, nodes) ==
    IF todo = <<>> THEN Return(nodes)
    ELSE LET node == TplNode(managed_node_classes, Head(todo)[1], Head(todo)[2])
         IN IF node.raised # NoException THEN node
            ELSE TplNodes(managed_node_classes, Tail(todo), Append(nodes, node.value[1]))

\* Application.__tpl_data_quadlet_nodes
tpl_data_quadlet_nodes ==
    LET managed_node_classes == node_classes_by_role("managed")
    IN TplNodes(managed_node_classes,
                XnameLoopOrder(bmc_xnames_by_node_class(managed_node_classes)),
                <<>>)

\* Application.__tpl_data_quadlet_hosting_cfg
tpl_data_quadlet_hosting_cfg ==
    LET cluster_net == cluster_network(FALSE)
        coredhcp == cluster_net_coredhcp
        dns == dns_config
    IN IF cluster_net.raised # NoException THEN cluster_net
       ELSE IF coredhcp.raised # NoException THEN coredhcp
       ELSE IF dns.raised # NoException THEN dns
       ELSE IF config.host = <<>> \/ config.cluster = <<>> THEN Raise(KeyError)
       ELSE Return([net_head_host |-> config.host[1].node_name,
                    net_head_domain |-> config.cluster[1].domain_name,
                    cluster_net_dhcp_start |-> coredhcp.value[1].pool[1].start,
                    cluster_net_dhcp_end |-> coredhcp.value[1].pool[1].end,
                    net_head_dns_server |-> dns.value[1].site,
                    upstream_dns_server |-> dns.value[1].public])

\* Application.__tpl_data_quadlet_bmcs: blade_classes, the blade classes of
\* the managed node classes that have nodes
BmcBladeClasses ==
    LET hosting == SelectSeq(node_classes_by_role("managed"),
                             LAMBDA node_class : node_count(node_class) > 0)
    IN [i \in 1..Len(hosting) |-> node_host_blade_info(hosting[i]).blade_class]

\* the keys of blade_counts: the blade classes in use that have blades
BmcBladeCounts ==
    LET counted == SelectSeq(BmcBladeClasses,
                             LAMBDA blade_class : blade_count(blade_class) > 0)
        counts == DictFrom([i \in 1..Len(counted) |->
                               [key |-> counted[i], value |-> blade_count(counted[i])]],
                           <<>>)
    IN [i \in 1..Len(counts) |-> counts[i].key]

\* the (blade_class, instance) keys of blade_info, in order
RECURSIVE BmcBladeInstances(_)
BmcBladeInstances(blade_classes) ==
    IF blade_classes = <<>> THEN <<>>
    ELSE [i \in 1..blade_count(Head(blade_classes)) |-> <<Head(blade_classes), i - 1>>]
         \o BmcBladeInstances(Tail(blade_classes))

\* blade_class_addressing(blade_class, network_name).address(family, instance)
BladeAddress(blade_class, network_name, family, instance) ==
    <<family, network_name, blade_class, instance>>

\* the 'networks' dict of a blade: keyed by network name, for the discovery
\* networks on which the blade class has addressing
BmcNetworks(blade_class, instance) ==
    LET wired == SelectSeq(DiscoveryNetworks,
                           LAMBDA discovery_net :
                               HasBladeAddressing(blade_class, discovery_net.network_name))
    IN DictFrom([i \in 1..Len(wired) |->
                    [key |-> wired[i].network_name,
                     value |-> [mac |-> BladeAddress(blade_class, wired[i].network_name,
                                                     "AF_PACKET", instance),
                                ipv4 |-> BladeAddress(blade_class, wired[i].network_name,
                                                      "AF_INET", instance),
                                redfish_username |-> wired[i].redfish_username,
                                redfish_password |-> wired[i].redfish_password]]],
                <<>>)

\* Application.__tpl_data_quadlet_bmcs: the dict keyed by BMC XNAME; the
\* XNAME of every blade of blade_counts is looked up, with or without networks
tpl_data_quadlet_bmcs ==
    LET blades == BmcBladeInstances(BmcBladeCounts)
        connected == SelectSeq(blades,
                               LAMBDA blade : BmcNetworks(blade[1], blade[2]) # <<>>)
    IN IF \E i \in 1..Len(blades) : blades[i][2] >= Len(BladeClassXnames(blades[i][1]))
       THEN Raise(IndexError)
       ELSE Return(DictFrom([i \in 1..Len(connected) |->
                [key |-> BladeClassXnames(connected[i][1])[connected[i][2] + 1],
                 value |-> [blade_class |-> connected[i][1],
                            blade_instance |-> connected[i][2],
                            network |-> BmcNetworks(connected[i][1],
                                                    connected[i][2])[1].value]]],
              <<>>))

\* Application.__tpl_data_quadlet
tpl_data_quadlet ==
    LET base == tpl_data_base
        nodes == tpl_data_quadlet_nodes
        hosting_config == tpl_data_quadlet_hosting_cfg
        bmcs == tpl_data_quadlet_bmcs
        image_builders == tpl_data_quadlet_image_builders
    IN IF base.raised # NoException THEN base
       ELSE IF nodes.raised # NoException THEN nodes
       ELSE IF hosting_config.raised # NoException THEN hosting_config
       ELSE IF bmcs.raised # NoException THEN bmcs
       ELSE IF image_builders.raised # NoException THEN image_builders
       ELSE Return([keys |-> TplDataKeys
                             \cup {"nodes", "managed_macs", "hosting_config", "bmcs",
                                   "image_builders", "active_image"},
                    base |-> base.value[1],
                    nodes |-> nodes.value[1],
                    hosting_config |-> <<hosting_config.value[1]>>,
                    bmcs |-> bmcs.value[1],
                    image_builders |-> image_builders.value[1]])

\* Application.__tpl_data_bare
tpl_data_bare ==
    LET base == tpl_data_base
        hosting_config == tpl_data_quadlet_hosting_cfg
        bmcs == tpl_data_quadlet_bmcs
    IN IF base.raised # NoException THEN base
       ELSE IF hosting_config.raised # NoException THEN hosting_config
       ELSE IF bmcs.raised # NoException THEN bmcs
       ELSE Return([keys |-> TplDataKeys \cup {"hosting_config", "bmcs"},
                    base |-> base.value[1],
                    nodes |-> <<>>,
                    hosting_config |-> <<hosting_config.value[1]>>,
                    bmcs |-> bmcs.value[1],
                    image_builders |-> <<>>])

\* the keys of self.tpl_data_calls
RecognizedModes == {"quadlet", "bare"}

\* list(self.tpl_data_calls.keys()), and list(deployment_files.keys())
RecognizedModeList == <<"quadlet", "bare">>

\* ", ".join(["'%s'" % mode for mode in str_list])
RECURSIVE JoinQuoted(_)
JoinQuoted(str_list) ==
    IF str_list = <<>> THEN ""
    ELSE IF Len(str_list) = 1 THEN "'" \o str_list[1] \o "'"
    ELSE "'" \o str_list[1] \o "', " \o JoinQuoted(Tail(str_list))

\* Application.__formatted_str_list
formatted_str_list(str_list) ==
    IF Len(str_list) > 1
    THEN JoinQuoted(SubSeq(str_list, 1, Len(str_list) - 1))
         \o ", and '" \o str_list[Len(str_list)] \o "'"
    ELSE IF str_list # <<>> THEN str_list[1]
    ELSE ""

\* the error of an unrecognized deployment mode
UnrecognizedMode(mode) ==
    ContextualError("unrecognized deployment mode '" \o mode
                    \o "' configured - recognized modes are: "
                    \o formatted_str_list(RecognizedModeList))

\* Application.__choose_tpl_data: a KeyError, of the mode lookup or of the
\* collector it calls, becomes a ContextualError
choose_tpl_data(mode) ==
    LET collected == IF mode \notin RecognizedModes THEN Raise(KeyError)
                     ELSE IF mode = "quadlet" THEN tpl_data_quadlet
                     ELSE tpl_data_bare
    IN IF collected.raised = KeyError
       THEN Raise(UnrecognizedMode(mode))
       ELSE collected

\* deployment_files, the manifests of a mode: <<blade_files,
\* management_node_files>>, an entry being [source, dest, mode, tag, run]
DeploymentFiles(mode) ==
    IF mode = "quadlet"
    THEN <<(<<[source |-> "prepare_blade.sh", dest |-> "/root/prepare_blade.sh",
               mode |-> "700", tag |-> "prepare-blade", run |-> TRUE]>>),
           (<<[source |-> "quadlet/config.yaml", dest |-> "/root/config.yaml",
               mode |-> "600", tag |-> "config", run |-> FALSE],
              [source |-> "quadlet/deploy.sh", dest |-> "/root/deploy.sh",
               mode |-> "700", tag |-> "deploy", run |-> TRUE]>>)>>
    ELSE <<(<<[source |-> "prepare_blade.sh", dest |-> "/root/prepare_blade.sh",
               mode |-> "700", tag |-> "prepare-blade", run |-> TRUE]>>),
           (<<[source |-> "bare/deploy.sh", dest |-> "/root/deploy.sh",
               mode |-> "700", tag |-> "deploy", run |-> TRUE]>>)>>

\* Application.__choose_deployment_files
choose_deployment_files(mode) ==
    IF mode \notin RecognizedModes
    THEN Raise(UnrecognizedMode(mode))
    ELSE Return(DeploymentFiles(mode))

ConfiguredModeDefaultsToBare ==
    IF config.deployment = <<>> THEN "bare" ELSE config.deployment[1].mode

\* config.get('deployment', {}).get('mode', 'quadlet')
ConfiguredMode ==
    IF config.deployment = <<>> THEN "quadlet" ELSE config.deployment[1].mode

\* the target argument of __deploy_files for a connection set
DeployTarget(stage) == IF stage = "blades" THEN "host-blade" ELSE "host-node"

\* connections.copy_to(tmpfile.name, dest, recurse=False, logname=...)
CopyToRequest(entry, stage) ==
    [call |-> "copy_to", stage |-> stage, dest |-> entry.dest, cmd |-> None,
     logname |-> "upload-application-" \o entry.tag \o "-to-" \o DeployTarget(stage)]

\* connections.run_command("chmod %s %s;" % (mode, dest), "chmod-file-%s-on" % tag)
ChmodRequest(entry, stage) ==
    [call |-> "run_command", stage |-> stage, dest |-> None,
     cmd |-> "chmod " \o entry.mode \o " " \o entry.dest \o ";",
     logname |-> "chmod-file-" \o entry.tag \o "-on"]

\* connections.run_command(cmd, "run-%s-on" % tag); the node connection set
\* is the NodeSSHConnectionSetBase
RunRequest(entry, stage) ==
    [call |-> "run_command", stage |-> stage, dest |-> None,
     cmd |-> entry.dest \o (IF stage = "nodes"
                            THEN " {{ node_class }} {{ instance }}"
                            ELSE " {{ blade_class }} {{ instance }}"),
     logname |-> "run-" \o entry.tag \o "-on"]

\* the request __deploy_files issues at a point of its loop body
DeployFilesRequest(entry, at, stage) ==
    IF at = "copy_to" THEN CopyToRequest(entry, stage)
    ELSE IF at = "chmod" THEN ChmodRequest(entry, stage)
    ELSE RunRequest(entry, stage)

DeployFilesAdvanceAlwaysRuns(files, at) ==
    IF at = "copy_to" THEN [files |-> files, at |-> "chmod"]
    ELSE IF at = "chmod" THEN [files |-> files, at |-> "run"]
    ELSE [files |-> Tail(files), at |-> "copy_to"]

\* the loop of __deploy_files after a request has returned: the manifest
\* entries left and the point of the loop body
DeployFilesAdvance(files, at) ==
    IF at = "copy_to" THEN [files |-> files, at |-> "chmod"]
    ELSE IF at = "chmod" /\ Head(files).run THEN [files |-> files, at |-> "run"]
    ELSE [files |-> Tail(files), at |-> "copy_to"]

-----------------------------------------------------------------------------
\* The API calls.  A call runs from pc = "idle" to pc = "idle"; a call that
\* raises ends at once and leaves the exception in outcome.

Ends(op, res) ==
    /\ pc' = "idle"
    /\ frame' = <<>>
    /\ outcome' = Finished(op, <<>>, res)

\* consolidate(), entry: the locals of __set_node_xnames
ConsolidateBegin ==
    /\ pc = "idle"
    /\ pc' = "set_node_xnames"
    /\ frame' = [node_classes |-> XnameNodeClasses,
                 xname_slots |-> InitialXnameSlots(XnameNodeClasses),
                 todo |-> XnameLoopOrder(XnameNodeClasses)]
    /\ virtual_nodes' = [virtual_nodes EXCEPT !.set_calls = <<>>]
    /\ calls' = [calls EXCEPT !.consolidate = @ + 1]
    /\ UNCHANGED <<virtual_blades, virtual_networks, config, prepared,
                   deploy_mode, tpl_data, outcome, connections, requests>>

\* consolidate(), one pass of the inner loop of __set_node_xnames
SetNodeXname ==
    /\ pc = "set_node_xnames"
    /\ frame.todo # <<>>
    /\ LET node_class == Head(frame.todo)[1]
           instance == Head(frame.todo)[2]
           step == SetNodeXnameStep(node_class, instance, frame.xname_slots)
       IN IF step.raised # NoException
          THEN /\ Ends("consolidate", Raise(step.raised))
               /\ UNCHANGED virtual_nodes
          ELSE /\ virtual_nodes' =
                     [virtual_nodes EXCEPT
                         !.names[<<node_class, instance>>] = step.value[1].node_xname,
                         !.set_calls = Append(@, <<node_class, instance,
                                                   step.value[1].node_xname>>)]
               /\ frame' = [frame EXCEPT !.xname_slots = step.value[1].xname_slots,
                                         !.todo = Tail(@)]
               /\ UNCHANGED <<pc, outcome>>
    /\ UNCHANGED <<virtual_blades, virtual_networks, config, prepared,
                   deploy_mode, tpl_data, connections, requests, calls>>

\* the most users any builder has (the words a call may have to generate)
MostUsers ==
    IF config.images = <<>> \/ config.images[1].users = <<>> THEN 0
    ELSE LET users == config.images[1].users
         IN Len(users[CHOOSE i \in 1..Len(users) :
                         \A j \in 1..Len(users) :
                             Len(users[j].entries) <= Len(users[i].entries)].entries)

\* consolidate(), after __set_node_xnames: the discovery networks are
\* filtered and given passwords, then the image builders get their commands
ConsolidateFinish ==
    /\ pc = "set_node_xnames"
    /\ frame.todo = <<>>
    /\ \E network_words \in [1..Len(DiscoveryNetworks) -> GeneratedWords],
          user_words \in [1..Len(ImagesGet("builders", <<>>)) ->
                             [1..MostUsers -> GeneratedWords]] :
          LET filtered_discovery_networks ==
                  FilterDiscoveryNetworks(
                      ConjurePasswords(DiscoveryNetworks, network_words),
                      network_names)
              images == prepare_image_configs(user_words)
          IN /\ config' = [config EXCEPT
                              !.discovery_networks = <<filtered_discovery_networks>>,
                              !.images = images.images]
             /\ Ends("consolidate",
                     IF images.raised # NoException
                     THEN Raise(images.raised) ELSE Return(None))
    /\ UNCHANGED <<virtual_nodes, virtual_blades, virtual_networks, prepared,
                   deploy_mode, tpl_data, connections, requests, calls>>

\* prepare()
Prepare ==
    /\ pc = "idle"
    /\ prepared' = TRUE
    /\ outcome' = Finished("prepare", <<>>, Return(None))
    /\ UNCHANGED <<virtual_nodes, virtual_blades, virtual_networks, config,
                   deploy_mode, tpl_data, pc, frame, connections, requests, calls>>

ValidateWithoutReadinessCheck ==
    Then(validate_host_info,
    Then(validate_cluster_info,
    Then(validate_discovery_networks, Return(None))))

validate ==
    IF ~prepared
    THEN Raise(ContextualError("cannot validate an unprepared application, call prepare() first"))
    ELSE Then(validate_host_info,
         Then(validate_cluster_info,
         Then(validate_discovery_networks, Return(None))))

\* validate()
Validate ==
    /\ pc = "idle"
    /\ outcome' = Finished("validate", <<>>, validate)
    /\ UNCHANGED <<virtual_nodes, virtual_blades, virtual_networks, config, prepared,
                   deploy_mode, tpl_data, pc, frame, connections, requests, calls>>

remove ==
    IF ~prepared
    THEN Raise(ContextualError("cannot deploy an unprepared application, call prepare() first"))
    ELSE Return(None)

\* remove()
Remove ==
    /\ pc = "idle"
    /\ outcome' = Finished("remove", <<>>, remove)
    /\ UNCHANGED <<virtual_nodes, virtual_blades, virtual_networks, config, prepared,
                   deploy_mode, tpl_data, pc, frame, connections, requests, calls>>

\* deploy(), up to the first connection: the readiness check, the mode, the
\* template data and the manifests
DeployBegin ==
    /\ pc = "idle"
    /\ calls' = [calls EXCEPT !.deploy = @ + 1]
    /\ IF ~prepared
       THEN /\ Ends("deploy",
                    Raise(ContextualError("cannot deploy an unprepared application, call prepare() first")))
            /\ UNCHANGED <<deploy_mode, tpl_data, requests>>
       ELSE LET collected == choose_tpl_data(ConfiguredMode)
                deployed_files == choose_deployment_files(ConfiguredMode)
            IN /\ deploy_mode' = ConfiguredMode
               /\ requests' = <<>>
               /\ IF collected.raised # NoException
                  THEN /\ Ends("deploy", collected)
                       /\ UNCHANGED tpl_data
                  ELSE /\ tpl_data' = collected.value
                       /\ IF deployed_files.raised # NoException
                          THEN Ends("deploy", deployed_files)
                          ELSE /\ pc' = "connect"
                               /\ frame' = [stage |-> "blades",
                                            files |-> deployed_files.value[1][1],
                                            at |-> "copy_to",
                                            management_node_files |-> deployed_files.value[1][2]]
                               /\ UNCHANGED outcome
    /\ UNCHANGED <<virtual_nodes, virtual_blades, virtual_networks, config, prepared,
                   connections>>

\* deploy(): ssh_connect_blades() / ssh_connect_nodes([host_node_class]) opens
\* the connection set of the stage
DeployConnect ==
    /\ pc = "connect"
    /\ \E connected \in BOOLEAN :
          IF connected
          THEN /\ connections' = connections \cup {frame.stage}
               /\ pc' = "deploy_files"
               /\ UNCHANGED <<frame, outcome>>
          ELSE /\ Ends("deploy", Raise(ContextualError("connection failed")))
               /\ UNCHANGED connections
    /\ UNCHANGED <<virtual_nodes, virtual_blades, virtual_networks, config, prepared,
                   deploy_mode, tpl_data, requests, calls>>

\* deploy(): __deploy_files renders the file of a manifest entry and issues
\* copy_to, or issues the next run_command of the entry; a rendering that
\* fails ends the with block and the call
DeployRequest ==
    /\ pc = "deploy_files"
    /\ frame.files # <<>>
    /\ \E rendered \in BOOLEAN :
          IF frame.at = "copy_to" /\ ~rendered
          THEN /\ connections' = connections \ {frame.stage}
               /\ Ends("deploy", Raise(ContextualError("rendering failed")))
               /\ UNCHANGED requests
          ELSE /\ requests' = Append(requests,
                                     DeployFilesRequest(Head(frame.files), frame.at,
                                                        frame.stage))
               /\ pc' = "awaiting"
               /\ UNCHANGED <<frame, outcome, connections>>
    /\ UNCHANGED <<virtual_nodes, virtual_blades, virtual_networks, config, prepared,
                   deploy_mode, tpl_data, calls>>

DeployReturnSwallowsFailure ==
    /\ pc = "awaiting"
    /\ \E failed \in BOOLEAN :
          IF failed
          THEN /\ connections' = connections \ {frame.stage}
               /\ Ends("deploy", Return(None))
          ELSE /\ pc' = "deploy_files"
               /\ frame' = [frame EXCEPT
                                !.files = DeployFilesAdvance(frame.files, frame.at).files,
                                !.at = DeployFilesAdvance(frame.files, frame.at).at]
               /\ UNCHANGED <<outcome, connections>>
    /\ UNCHANGED <<virtual_nodes, virtual_blades, virtual_networks, config, prepared,
                   deploy_mode, tpl_data, requests, calls>>

DeployReturnKeepsConnections ==
    /\ pc = "awaiting"
    /\ \E failed \in BOOLEAN :
          IF failed
          THEN /\ Ends("deploy", Raise(ContextualError("request failed")))
               /\ UNCHANGED connections
          ELSE /\ pc' = "deploy_files"
               /\ frame' = [frame EXCEPT
                                !.files = DeployFilesAdvance(frame.files, frame.at).files,
                                !.at = DeployFilesAdvance(frame.files, frame.at).at]
               /\ UNCHANGED <<outcome, connections>>
    /\ UNCHANGED <<virtual_nodes, virtual_blades, virtual_networks, config, prepared,
                   deploy_mode, tpl_data, requests, calls>>

\* deploy(): the request returns, or fails, which ends the with block and
\* the call
DeployReturn ==
    /\ pc = "awaiting"
    /\ \E failed \in BOOLEAN :
          IF failed
          THEN /\ connections' = connections \ {frame.stage}
               /\ Ends("deploy", Raise(ContextualError("request failed")))
          ELSE /\ pc' = "deploy_files"
               /\ frame' = [frame EXCEPT
                                !.files = DeployFilesAdvance(frame.files, frame.at).files,
                                !.at = DeployFilesAdvance(frame.files, frame.at).at]
               /\ UNCHANGED <<outcome, connections>>
    /\ UNCHANGED <<virtual_nodes, virtual_blades, virtual_networks, config, prepared,
                   deploy_mode, tpl_data, requests, calls>>

DeployDisconnectEarly ==
    /\ pc = "deploy_files"
    /\ connections' = connections \ {frame.stage}
    /\ IF frame.stage = "blades"
       THEN /\ pc' = "connect"
            /\ frame' = [frame EXCEPT !.stage = "nodes",
                                      !.files = frame.management_node_files,
                                      !.at = "copy_to"]
            /\ UNCHANGED outcome
       ELSE Ends("deploy", Return(None))
    /\ UNCHANGED <<virtual_nodes, virtual_blades, virtual_networks, config, prepared,
                   deploy_mode, tpl_data, requests, calls>>

\* deploy(): the manifest of the stage is done, the with block releases the
\* connection set; the node stage follows the blade stage
DeployDisconnect ==
    /\ pc = "deploy_files"
    /\ frame.files = <<>>
    /\ connections' = connections \ {frame.stage}
    /\ IF frame.stage = "blades"
       THEN /\ pc' = "connect"
            /\ frame' = [frame EXCEPT !.stage = "nodes",
                                      !.files = frame.management_node_files,
                                      !.at = "copy_to"]
            /\ UNCHANGED outcome
       ELSE Ends("deploy", Return(None))
    /\ UNCHANGED <<virtual_nodes, virtual_blades, virtual_networks, config, prepared,
                   deploy_mode, tpl_data, requests, calls>>

-----------------------------------------------------------------------------
\* Values of the variables a specification does not exercise.

NoNodes == [classes |-> <<>>, info |-> <<>>, names |-> <<>>, set_calls |-> <<>>]
NoBlades == <<>>
NoNetworks == <<>>
NoConfig ==
    [host |-> <<>>, cluster |-> <<>>, discovery_networks |-> <<>>, dns |-> <<>>,
     images |-> <<>>, deployment |-> <<>>]
NoFrame == <<>>

Unconstructed ==
    /\ prepared = FALSE
    /\ deploy_mode = None
    /\ tpl_data = <<>>
    /\ pc = "idle"
    /\ frame = NoFrame
    /\ outcome = NoCall
    /\ connections = {}
    /\ requests = <<>>
    /\ calls = [consolidate |-> 0, deploy |-> 0]

-----------------------------------------------------------------------------
\* Specification SpecNid: __nid_from_class_instance applied to every class
\* list, class name and instance number over every small node directory.

NidDirectories ==
    {[classes |-> classes,
      info |-> [c \in Range(classes) |->
                  [node_role |-> "managed", node_count |-> counts[c],
                   blade_class |-> "blade0", instance_capacity |-> 1,
                   networks |-> {}]],
      names |-> <<>>, set_calls |-> <<>>] :
        classes \in Enumerations(NodeClassNames),
        counts \in [NodeClassNames -> 0..MaxCount]}

InitNid ==
    /\ virtual_nodes \in NidDirectories
    /\ virtual_blades = NoBlades
    /\ virtual_networks = NoNetworks
    /\ config = NoConfig
    /\ Unconstructed

\* one call per run: the function keeps no state between calls
NidCall ==
    /\ outcome = NoCall
    /\ \E classes \in Enumerations(Range(virtual_nodes.classes)),
          class_name \in Range(virtual_nodes.classes),
          instance \in 0..(MaxCount + 1) :
        /\ outcome' = Finished("nid_from_class_instance",
                               <<classes, class_name, instance>>,
                               nid_from_class_instance(classes, class_name, instance))
        /\ UNCHANGED <<virtual_nodes, virtual_blades, virtual_networks, config,
                       prepared, deploy_mode, tpl_data, pc, frame, connections,
                       requests, calls>>

NextNid == NidCall

SpecNid == InitNid /\ [][NextNid]_vars

RECURSIVE SumCounts(_)
SumCounts(S) ==
    IF S = {} THEN 0
    ELSE LET c == CHOOSE x \in S : TRUE
         IN node_count(c) + SumCounts(S \ {c})

IsNidCall == outcome.op = "nid_from_class_instance"
NidArgClasses == outcome.args[1]
NidArgClass == outcome.args[2]
NidArgInstance == outcome.args[3]

\* The NIDs of a class list, classes in sorted order, instances in index order.
RECURSIVE NidEnumeration(_, _)
NidEnumeration(all, sorted) ==
    IF sorted = <<>> THEN <<>>
    ELSE [i \in 1..node_count(Head(sorted)) |->
             nid_from_class_instance(all, Head(sorted), i - 1).value]
         \o NidEnumeration(all, Tail(sorted))

\* C2: for a class of the list and 0 <= instance < node_count(class) the NID
\* is 1 + instance + the node counts of the classes that sort before it, and
\* the NIDs enumerated in sorted class order, instance order are 1, 2, ..., N.
C2_NidFormula ==
    IsNidCall =>
        /\ (NidArgClass \in Range(NidArgClasses)
               /\ NidArgInstance < node_count(NidArgClass))
            => outcome.value =
                 <<1 + NidArgInstance
                     + SumCounts({c \in Range(NidArgClasses) : StrLess(c, NidArgClass)})>>
        /\ LET nids == NidEnumeration(NidArgClasses, ListSort(NidArgClasses))
           IN /\ Len(nids) = SumCounts(Range(NidArgClasses))
              /\ \A k \in 1..Len(nids) : nids[k] = <<k>>

\* a class list given out of order, a class with populated classes before it
C2_Witness ==
    /\ IsNidCall
    /\ NidArgClasses # ListSort(NidArgClasses)
    /\ NidArgClass \in Range(NidArgClasses)
    /\ NidArgInstance > 0
    /\ NidArgInstance < node_count(NidArgClass)
    /\ SumCounts({c \in Range(NidArgClasses) : StrLess(c, NidArgClass)}) > 1
    /\ outcome.raised = NoException

\* C3: an instance >= node_count(class), or a class that is not in the list,
\* raises ContextualError and returns no NID.
C3_NidErrors ==
    (IsNidCall /\ (NidArgInstance >= node_count(NidArgClass)
                     \/ NidArgClass \notin Range(NidArgClasses)))
    => (outcome.raised.type = "ContextualError" /\ outcome.value = <<>>)

\* the name error: the instance is in range, the class is not in the list
C3_Witness ==
    /\ IsNidCall
    /\ NidArgInstance < node_count(NidArgClass)
    /\ NidArgClass \notin Range(NidArgClasses)
    /\ NidArgClasses # <<>>
    /\ outcome.raised = ContextualError("unrecognized node class")

-----------------------------------------------------------------------------
\* Specification SpecNet: the tagged network lookups over every small
\* network directory, by validating and non-validating callers.

NetworkNames == {"net0", "net1", "net2"}
NetworkTags == {"cluster_network", "management_network"}

NetworkDirectories ==
    UNION {{[i \in 1..Len(names) |->
                [name |-> names[i],
                 metadata |-> [cluster_network |-> md[names[i]]["cluster_network"],
                               management_network |-> md[names[i]]["management_network"],
                               coredhcp |-> <<>>],
                 blade_classes |-> {}]] :
              md \in [NetworkNames -> [NetworkTags -> {"absent", "false", "true"}]]} :
           names \in Enumerations(NetworkNames)}

InitNet ==
    /\ virtual_nodes = NoNodes
    /\ virtual_blades = NoBlades
    /\ virtual_networks \in NetworkDirectories
    /\ config = NoConfig
    /\ Unconstructed

ClusterNetworkCall ==
    \E validating \in BOOLEAN :
        /\ outcome' = Finished("tagged_network", <<"cluster_network", validating>>,
                               cluster_network(validating))
        /\ UNCHANGED <<virtual_nodes, virtual_blades, virtual_networks, config,
                       prepared, deploy_mode, tpl_data, pc, frame, connections,
                       requests, calls>>

ManagementNetworkCall ==
    \E validating \in BOOLEAN :
        /\ outcome' = Finished("tagged_network", <<"management_network", validating>>,
                               management_network(validating))
        /\ UNCHANGED <<virtual_nodes, virtual_blades, virtual_networks, config,
                       prepared, deploy_mode, tpl_data, pc, frame, connections,
                       requests, calls>>

NextNet == ClusterNetworkCall \/ ManagementNetworkCall

SpecNet == InitNet /\ [][NextNet]_vars

IsTaggedCall == outcome.op = "tagged_network"
TaggedArgTag == outcome.args[1]
TaggedArgValidate == outcome.args[2]

CarriesTag(i, tag) == virtual_networks[i].metadata[tag] = "true"
NumberTagged(tag) ==
    Cardinality({i \in 1..Len(virtual_networks) : CarriesTag(i, tag)})

\* C8 (as claimed): with no network carrying '<tag>: true', every call of
\* tagged_network(tag), validating or not, raises ContextualError and
\* returns no network.
C8_ZeroMatchesContextualError ==
    (IsTaggedCall /\ NumberTagged(TaggedArgTag) = 0)
    => (outcome.raised.type = "ContextualError" /\ outcome.value = <<>>)

\* C9, the result: with two or more networks carrying '<tag>: true' the call
\* does not fail and returns the tagged network that comes first in the
\* directory's enumeration order.
C9_ReturnsFirstTagged ==
    (IsTaggedCall /\ NumberTagged(TaggedArgTag) >= 2)
    => /\ outcome.raised = NoException
       /\ \E i \in 1..Len(virtual_networks) :
              /\ CarriesTag(i, TaggedArgTag)
              /\ \A j \in 1..(i - 1) : ~CarriesTag(j, TaggedArgTag)
              /\ outcome.value = <<virtual_networks[i].name>>

\* C9, repetition: a call that follows a call for the same tag over the same
\* directory returns the same network.
C9_RepeatedCallAgrees ==
    (/\ IsTaggedCall /\ IsTaggedCall'
     /\ TaggedArgTag' = TaggedArgTag
     /\ virtual_networks' = virtual_networks
     /\ NumberTagged(TaggedArgTag) >= 2)
    => outcome'.value = outcome.value

\* C9: with two or more tagged networks tagged_network(tag) returns the first
\* tagged network in enumeration order, and repeated calls return the same one.
C9_FirstOfSeveral == []C9_ReturnsFirstTagged /\ [][C9_RepeatedCallAgrees]_vars

\* several tagged networks, the first of them not first in the directory
C9_Witness ==
    /\ IsTaggedCall
    /\ NumberTagged(TaggedArgTag) >= 2
    /\ ~CarriesTag(1, TaggedArgTag)
    /\ ~TaggedArgValidate
    /\ outcome.raised = NoException

-----------------------------------------------------------------------------
\* Specification SpecImg: the image builder list assembled from every small
\* set of declared builders and every short build_order.

BuilderNames == {"a", "b", "c"}
OrderNames == BuilderNames \cup {"d"}

BuildOrders == UNION {[1..n -> OrderNames] : n \in 0..MaxBuildOrder}

ImageConfigs ==
    {<<[builders |-> [i \in 1..Len(tags) |-> [name |-> tags[i], cmds |-> <<>>]],
        build_order |-> build_order,
        groups |-> <<>>,
        users |-> <<>>]>> :
        tags \in Enumerations(BuilderNames), build_order \in BuildOrders}

InitImg ==
    /\ virtual_nodes = NoNodes
    /\ virtual_blades = NoBlades
    /\ virtual_networks = NoNetworks
    /\ config \in {[NoConfig EXCEPT !.images = images] : images \in ImageConfigs}
    /\ Unconstructed

\* one call per run: the function keeps no state between calls
ImageBuildersCall ==
    /\ outcome = NoCall
    /\ outcome' = Finished("tpl_data_quadlet_image_builders", <<>>,
                           tpl_data_quadlet_image_builders)
    /\ UNCHANGED <<virtual_nodes, virtual_blades, virtual_networks, config,
                   prepared, deploy_mode, tpl_data, pc, frame, connections,
                   requests, calls>>

NextImg == ImageBuildersCall

SpecImg == InitImg /\ [][NextImg]_vars

IsImageBuildersCall == outcome.op = "tpl_data_quadlet_image_builders"
DeclaredTags == BuilderTags(config.images[1].builders)
BuildOrder == config.images[1].build_order
Occurrences(list, x) == Cardinality({i \in 1..Len(list) : list[i] = x})

\* the list is build_order, then the declared builders build_order does not
\* name, in declaration order
OrderThenRemaining(list) ==
    LET k == Len(BuildOrder)
        rest == SubSeq(list, k + 1, Len(list))
    IN /\ Len(list) >= k
       /\ SubSeq(list, 1, k) = BuildOrder
       /\ Range(rest) = Range(DeclaredTags) \ Range(BuildOrder)
       /\ \A i, j \in 1..Len(rest) :
              i < j => \E p, q \in 1..Len(DeclaredTags) :
                          p < q /\ DeclaredTags[p] = rest[i] /\ DeclaredTags[q] = rest[j]

\* C10 (as claimed): for every accepted build_order the list is build_order
\* followed by the remaining declared builders in declaration order, and
\* every declared builder appears in it exactly once.
C10_EveryBuilderExactlyOnce ==
    (IsImageBuildersCall /\ outcome.raised = NoException)
    => /\ OrderThenRemaining(outcome.value[1])
       /\ \A b \in Range(DeclaredTags) : Occurrences(outcome.value[1], b) = 1

\* C10 (amended): for every accepted build_order the list is build_order
\* followed by the remaining declared builders in declaration order; every
\* declared builder appears in it as often as build_order lists it, and once
\* when build_order does not list it, so exactly once when build_order lists
\* no tag twice.
C10_OrderThenRemaining ==
    (IsImageBuildersCall /\ outcome.raised = NoException)
    => /\ OrderThenRemaining(outcome.value[1])
       /\ \A b \in Range(DeclaredTags) :
              Occurrences(outcome.value[1], b) =
                 IF b \in Range(BuildOrder) THEN Occurrences(BuildOrder, b) ELSE 1

\* builders {a,b,c} with build_order [c,a] give [c,a,b]
C10_Witness ==
    /\ IsImageBuildersCall
    /\ DeclaredTags = <<"a", "b", "c">>
    /\ BuildOrder = <<"c", "a">>
    /\ outcome.value = <<(<<"c", "a", "b">>)>>


\* C11: when build_order contains a tag that is not a declared image builder,
\* the assembly of the image builder list raises ContextualError and returns
\* no list.
C11_UnknownTagFails ==
    (/\ IsImageBuildersCall
     /\ \E i \in 1..Len(BuildOrder) : BuildOrder[i] \notin Range(DeclaredTags))
    => /\ outcome.raised.type = "ContextualError"
       /\ outcome.value = <<>>

\* build_order [a, d]: a declared tag followed by an undeclared one
C11_Witness ==
    /\ IsImageBuildersCall
    /\ BuildOrder = <<"a", "d">>
    /\ outcome.raised.type = "ContextualError"

-----------------------------------------------------------------------------
\* Specification SpecXnames: one consolidate() over every small topology of
\* node classes (in every enumeration order) hosted on two blade classes.

\* node class names "a", "ab"
XnClassNames == {<<97>>, <<97, 98>>}

\* "x1", "x2", ... for blade0 and "y1", "y2", ... for blade1
BladeXnameList(letter, n) == [i \in 1..n |-> <<letter, ch_0 + i>>]

\* the XNAME lists of blade0: "x1" .. "xn", and "x1" listed MaxXnames times
Blade0XnameLists ==
    {BladeXnameList(120, n) : n \in 0..MaxXnames}
    \cup {[i \in 1..MaxXnames |-> <<120, ch_0 + 1>>]}

\* a blade class with a blade for every XNAME of its list
BladeClass(xnames) == [xnames |-> xnames, blade_count |-> Len(xnames)]

BladeDirectories ==
    {[blade_class \in {"blade0", "blade1"} |->
         IF blade_class = "blade0" THEN BladeClass(xnames)
         ELSE BladeClass(BladeXnameList(121, MaxXnames))] : xnames \in Blade0XnameLists}

NodeInfos ==
    [node_role : {"managed", "management", None},
     node_count : 0..MaxCount,
     blade_class : {"blade0", "blade1"},
     instance_capacity : 1..MaxCapacity,
     networks : {{"net0"}}]

\* the name a node has before consolidate(): "<class>-<instance>"
InitialNodeName(node_class, instance) == node_class \o <<45>> \o FormatInt(instance)

NodeDirectory(classes, info) ==
    [classes |-> classes,
     info |-> info,
     names |-> [node \in UNION {{<<c, i>> : i \in 0..(info[c].node_count - 1)} :
                                  c \in Range(classes)} |->
                   InitialNodeName(node[1], node[2])],
     set_calls |-> <<>>]

NodeDirectories(names) ==
    UNION {{NodeDirectory(classes, info) : info \in [Range(classes) -> NodeInfos]} :
           classes \in Enumerations(names)}

PlainDiscoveryNetwork ==
    [name |-> "discovery", network_name |-> "net0", network_cidr |-> None,
     redfish_username |-> "root", redfish_password |-> "secret"]

PlainPool == <<[pool |-> <<[start |-> "10.1.0.10", end |-> "10.1.0.20"]>>]>>

PlainNetworks ==
    <<[name |-> "net0",
       metadata |-> [cluster_network |-> "true", management_network |-> "true",
                     coredhcp |-> PlainPool],
       blade_classes |-> {"blade0", "blade1"}]>>

PlainConfig ==
    [NoConfig EXCEPT
        !.discovery_networks = <<(<<PlainDiscoveryNetwork>>)>>,
        !.images = <<[builders |-> <<>>, build_order |-> <<>>,
                      groups |-> <<>>, users |-> <<>>]>>]

InitXnames ==
    /\ virtual_nodes \in NodeDirectories(XnClassNames)
    /\ virtual_blades \in BladeDirectories
    /\ virtual_networks = PlainNetworks
    /\ config = PlainConfig
    /\ Unconstructed

\* one call per run
ConsolidateOnce == outcome = NoCall /\ calls.consolidate = 0 /\ ConsolidateBegin

NextXnames == ConsolidateOnce \/ SetNodeXname \/ ConsolidateFinish

SpecXnames == InitXnames /\ [][NextXnames]_vars

\* What the formulas about XNAME assignment read off the state.

ConsolidateEnded == outcome.op = "consolidate"
ConsolidateSucceeded == ConsolidateEnded /\ outcome.raised = NoException
AssigningXnames == pc = "set_node_xnames"

SetCalls == virtual_nodes.set_calls
CallClass(k) == SetCalls[k][1]
CallInstance(k) == SetCalls[k][2]
CallXname(k) == SetCalls[k][3]

IsManaged(node_class) == virtual_nodes.info[node_class].node_role = "managed"
Capacity(node_class) == virtual_nodes.info[node_class].instance_capacity
HostXnames(node_class) ==
    virtual_blades[virtual_nodes.info[node_class].blade_class].xnames
DirectoryIndex(node_class) ==
    CHOOSE i \in 1..Len(virtual_nodes.classes) : virtual_nodes.classes[i] = node_class

\* the blade a node instance lives on: floor(instance / instance_capacity)
HostBladeIndex(node_class, instance) ==
    CHOOSE q \in 0..instance :
        q * Capacity(node_class) <= instance /\ instance < (q + 1) * Capacity(node_class)
HasHostBlade(node_class, instance) ==
    HostBladeIndex(node_class, instance) < Len(HostXnames(node_class))
HostBladeXname(node_class, instance) ==
    HostXnames(node_class)[HostBladeIndex(node_class, instance) + 1]

\* an xname "<blade_xname>n<slot>" with a one digit slot, taken apart
XnameBlade(xname) == SubSeq(xname, 1, Len(xname) - 2)
XnameSeparator(xname) == xname[Len(xname) - 1]
XnameSlot(xname) == xname[Len(xname)] - 48

\* C4 (as claimed): when some node instance's blade index has no entry in the
\* XNAME list of its hosting blade class, consolidate() fails with
\* ContextualError.
C4_CapacityError ==
    (/\ ConsolidateEnded
     /\ \E c \in Range(virtual_nodes.classes) :
           \E i \in 0..(node_count(c) - 1) : ~HasHostBlade(c, i))
    => outcome.raised.type = "ContextualError"

ManagedBeforeManagement(order) ==
    \A i, j \in 1..Len(order) :
        (IsManaged(order[i]) /\ ~IsManaged(order[j])) => i < j

\* slots on a shared blade: managed nodes below management nodes
ManagedSlotsFirst ==
    \A p, q \in 1..Len(SetCalls) :
        (/\ XnameBlade(CallXname(p)) = XnameBlade(CallXname(q))
         /\ IsManaged(CallClass(p)) /\ ~IsManaged(CallClass(q)))
        => XnameSlot(CallXname(p)) < XnameSlot(CallXname(q))

\* C5 (as claimed): the classes are processed managed first then management,
\* each group in sorted name order whatever the directory's enumeration
\* order, so that on a shared blade managed nodes get lower slots than
\* management nodes and managed classes get slots in sorted name order.
C5_SortedOrder ==
    /\ \A p, q \in 1..Len(SetCalls) :
          /\ (IsManaged(CallClass(p)) /\ ~IsManaged(CallClass(q))) => p < q
          /\ (/\ IsManaged(CallClass(p)) = IsManaged(CallClass(q))
              /\ StrLess(CallClass(p), CallClass(q)))
             => p < q
    /\ ManagedSlotsFirst
    /\ \A p, q \in 1..Len(SetCalls) :
          (/\ XnameBlade(CallXname(p)) = XnameBlade(CallXname(q))
           /\ IsManaged(CallClass(p)) /\ IsManaged(CallClass(q))
           /\ StrLess(CallClass(p), CallClass(q)))
          => XnameSlot(CallXname(p)) < XnameSlot(CallXname(q))

\* C5 (amended): the classes are processed managed first then management,
\* each group in the directory's enumeration order, so that on a shared blade
\* managed nodes get lower slots than management nodes and the classes of a
\* group get slots in the directory's enumeration order.
C5_EnumerationOrder ==
    /\ AssigningXnames =>
          /\ Range(frame.node_classes) = Range(virtual_nodes.classes)
          /\ Len(frame.node_classes) = Len(virtual_nodes.classes)
          /\ ManagedBeforeManagement(frame.node_classes)
          /\ \A i, j \in 1..Len(frame.node_classes) :
                (/\ IsManaged(frame.node_classes[i]) = IsManaged(frame.node_classes[j])
                 /\ DirectoryIndex(frame.node_classes[i])
                        < DirectoryIndex(frame.node_classes[j]))
                => i < j
    /\ \A p, q \in 1..Len(SetCalls) :
          /\ (IsManaged(CallClass(p)) /\ ~IsManaged(CallClass(q))) => p < q
          /\ (/\ IsManaged(CallClass(p)) = IsManaged(CallClass(q))
              /\ DirectoryIndex(CallClass(p)) < DirectoryIndex(CallClass(q)))
             => p < q
    /\ ManagedSlotsFirst
    /\ \A p, q \in 1..Len(SetCalls) :
          (/\ XnameBlade(CallXname(p)) = XnameBlade(CallXname(q))
           /\ IsManaged(CallClass(p)) = IsManaged(CallClass(q))
           /\ DirectoryIndex(CallClass(p)) < DirectoryIndex(CallClass(q)))
          => XnameSlot(CallXname(p)) < XnameSlot(CallXname(q))

\* a management class enumerated before a managed class, sharing a blade
C5_Witness ==
    /\ ConsolidateSucceeded
    /\ \E p, q \in 1..Len(SetCalls) :
          /\ XnameBlade(CallXname(p)) = XnameBlade(CallXname(q))
          /\ IsManaged(CallClass(p)) /\ ~IsManaged(CallClass(q))
          /\ DirectoryIndex(CallClass(q)) < DirectoryIndex(CallClass(p))
          /\ XnameSlot(CallXname(p)) < XnameSlot(CallXname(q))

\* the calls before call k that name a node of the same blade
EarlierOnBlade(k) ==
    {j \in 1..(k - 1) :
        HostBladeXname(CallClass(j), CallInstance(j))
            = HostBladeXname(CallClass(k), CallInstance(k))}

\* C6: every xname written is <blade_xname>n<slot>, blade_xname the entry at
\* floor(instance / instance_capacity) of the hosting blade class's XNAME
\* list and slot the number of nodes named on that blade before, so the slots
\* used on a blade are 0, 1, ..., k-1; the blade's counter is k.
C6_XnameForm ==
    /\ \A k \in 1..Len(SetCalls) :
          /\ HasHostBlade(CallClass(k), CallInstance(k))
          /\ CallXname(k) = HostBladeXname(CallClass(k), CallInstance(k))
                             \o <<110, 48 + Cardinality(EarlierOnBlade(k))>>
          /\ virtual_nodes.names[<<CallClass(k), CallInstance(k)>>] = CallXname(k)
    /\ AssigningXnames =>
          \A blade_xname \in DOMAIN frame.xname_slots :
              frame.xname_slots[blade_xname] =
                  Cardinality({k \in 1..Len(SetCalls) :
                      HostBladeXname(CallClass(k), CallInstance(k)) = blade_xname})

\* a blade shared by two classes that holds three nodes, and a second blade
C6_Witness ==
    /\ ConsolidateSucceeded
    /\ \E k \in 1..Len(SetCalls) :
          /\ Cardinality(EarlierOnBlade(k)) = 2
          /\ \E j \in EarlierOnBlade(k) : CallClass(j) # CallClass(k)
    /\ \E j, k \in 1..Len(SetCalls) : XnameBlade(CallXname(j)) # XnameBlade(CallXname(k))

ManagedClasses == {c \in Range(virtual_nodes.classes) : IsManaged(c)}

\* what C7 says of the single managed class c
SingleManagedClassNames(c) ==
           \A i \in 0..(node_count(c) - 1) :
               /\ virtual_nodes.names[<<c, i>>] =
                      HostXnames(c)[HostBladeIndex(c, i) + 1]
                         \o <<110, 48 + (i % Capacity(c))>>
               /\ nid_from_class_instance(node_classes_by_role("managed"), c, i)
                      = Return(i + 1)

\* C7 (as claimed): with a single managed node class of count n and capacity
\* k on a blade class with XNAME list X, a successful consolidate() names
\* instance i X[floor(i/k)] + 'n' + (i mod k), and the NID of instance i is
\* i + 1.
C7_SingleManagedClass ==
    (ConsolidateSucceeded /\ Cardinality(ManagedClasses) = 1)
    => \A c \in ManagedClasses : SingleManagedClassNames(c)

NoXnameTwice(xnames) ==
    \A i, j \in 1..Len(xnames) : xnames[i] = xnames[j] => i = j

\* C7 (amended): with a single managed node class of count n and capacity k
\* on a blade class whose XNAME list X names no blade twice, a successful
\* consolidate() names instance i X[floor(i/k)] + 'n' + (i mod k), and the
\* NID of instance i is i + 1.
C7_DistinctXnames ==
    (ConsolidateSucceeded /\ Cardinality(ManagedClasses) = 1)
    => \A c \in ManagedClasses :
           NoXnameTwice(HostXnames(c)) => SingleManagedClassNames(c)

\* count=2, capacity=2, X=[x1,x2]: x1n0, x1n1 and NIDs 1, 2
C7_Witness ==
    /\ ConsolidateSucceeded
    /\ \E c \in ManagedClasses :
          /\ ManagedClasses = {c}
          /\ node_count(c) = 2 /\ Capacity(c) = 2
          /\ HostXnames(c) = <<(<<120, 49>>), (<<120, 50>>)>>
          /\ virtual_nodes.names[<<c, 0>>] = <<120, 49, 110, 48>>
          /\ virtual_nodes.names[<<c, 1>>] = <<120, 49, 110, 49>>
          /\ nid_from_class_instance(node_classes_by_role("managed"), c, 0) = Return(1)
          /\ nid_from_class_instance(node_classes_by_role("managed"), c, 1) = Return(2)


-----------------------------------------------------------------------------
\* Specification SpecAccounts: one consolidate() over image configurations
\* whose builders have groups, users and declared commands.

MaxGroups == 2
MaxUsers == 2

\* entries of the 'groups' dict: two named groups and one without a name
GroupEntries == {[name |-> "g1"], [name |-> "g2"], [name |-> None]}

\* entries of the 'users' dict: a user with a password, one without, and one
\* without a name
UserEntries ==
    {[name |-> "u1", password |-> "hash", primary_group |-> "g1",
      supplementary_groups |-> <<>>],
     [name |-> "u2", password |-> None, primary_group |-> "g2",
      supplementary_groups |-> <<"g1">>],
     [name |-> None, password |-> None, primary_group |-> "g1",
      supplementary_groups |-> <<>>]}

DeclaredCommand == [cmd |-> "declared", arg |-> <<"dnf">>]

\* the builder "base" with every choice of groups, users and declared
\* commands, alone or followed by the builder "compute"
AccountImages ==
    {[builders |-> <<[name |-> "base", cmds |-> cmds]>> \o more,
      build_order |-> <<>>,
      groups |-> <<[name |-> "base", entries |-> groups],
                   [name |-> "compute", entries |-> <<[name |-> "g1"]>>]>>,
      users |-> <<[name |-> "base", entries |-> users]>>] :
        cmds \in {<<>>, <<DeclaredCommand>>},
        more \in {<<>>, <<[name |-> "compute", cmds |-> <<DeclaredCommand>>]>>},
        groups \in UNION {[1..n -> GroupEntries] : n \in 0..MaxGroups},
        users \in UNION {[1..n -> UserEntries] : n \in 0..MaxUsers}}

\* one managed node on the first blade of blade0
AccountNodes ==
    NodeDirectory(<<(<<97>>)>>,
                  (<<97>> :> [node_role |-> "managed", node_count |-> 1,
                              blade_class |-> "blade0", instance_capacity |-> 1,
                              networks |-> {"net0"}]))

AccountBlades ==
    [blade_class \in {"blade0", "blade1"} |->
        IF blade_class = "blade0" THEN BladeClass(BladeXnameList(120, 1))
        ELSE BladeClass(<<>>)]

InitAccounts ==
    /\ virtual_nodes = AccountNodes
    /\ virtual_blades = AccountBlades
    /\ virtual_networks = PlainNetworks
    /\ config \in {[PlainConfig EXCEPT !.images = <<images>>] : images \in AccountImages}
    /\ Unconstructed

NextAccounts == ConsolidateOnce \/ SetNodeXname \/ ConsolidateFinish

SpecAccounts == InitAccounts /\ [][NextAccounts]_vars

\* the command list of builder k
BuilderCommands(k) == config.images[1].builders[k].cmds

\* in the command list, every command of kind first is before every command
\* of kind second
KindBefore(commands, first, second) ==
    \A i, j \in 1..Len(commands) :
        (commands[i].cmd = first /\ commands[j].cmd = second) => i < j

\* C12 (as claimed): after consolidate(), in each image builder's command
\* list every generated group-add command comes before every generated
\* user-add command, and every generated user-add command comes before every
\* declared command.
C12_GroupsThenUsersThenDeclared ==
    ConsolidateSucceeded
    => \A k \in 1..Len(config.images[1].builders) :
           /\ KindBefore(BuilderCommands(k), "groupadd", "useradd")
           /\ KindBefore(BuilderCommands(k), "useradd", "declared")

\* C12 (what the code does): after consolidate(), in each image builder's
\* command list every generated user-add command comes before every generated
\* group-add command, and both come before every declared command.
C12_UsersThenGroupsThenDeclared ==
    ConsolidateSucceeded
    => \A k \in 1..Len(config.images[1].builders) :
           /\ KindBefore(BuilderCommands(k), "useradd", "groupadd")
           /\ KindBefore(BuilderCommands(k), "groupadd", "declared")
           /\ KindBefore(BuilderCommands(k), "useradd", "declared")

\* a builder with two groups, two users and a declared command, consolidated
C12_Witness ==
    /\ ConsolidateSucceeded
    /\ \E k \in 1..Len(config.images[1].builders) :
          /\ Cardinality({i \in 1..Len(BuilderCommands(k)) :
                             BuilderCommands(k)[i].cmd = "groupadd"}) = 2
          /\ Cardinality({i \in 1..Len(BuilderCommands(k)) :
                             BuilderCommands(k)[i].cmd = "useradd"}) = 2
          /\ BuilderCommands(k)[Len(BuilderCommands(k))].cmd = "declared"


-----------------------------------------------------------------------------
\* Specification SpecDiscovery: consolidate(), prepare() and validate() over
\* every small 'discovery_networks' block, the rest of the configuration
\* being valid.

MaxDiscovery == 2

\* the i-th key of the block: "d1", "d2", ...
DiscoveryName(i) == <<100, ch_0 + i>>

\* "net0" is in the virtual-network directory, "net9" is not
DiscoveryEntries ==
    [network_name : {None, "net0", "net9"},
     network_cidr : {None, "10.9.0.0/24"},
     redfish_username : {None, "root"},
     redfish_password : {None, "secret"}]

DiscoveryBlocks ==
    {<<>>}
    \cup {<<[i \in 1..Len(entries) |-> entries[i] @@ [name |-> DiscoveryName(i)]]>> :
             entries \in UNION {[1..n -> DiscoveryEntries] : n \in 0..MaxDiscovery}}

ValidConfig ==
    [host |-> <<[network |-> "net0", node_class |-> <<(<<97>>)>>, node_name |-> "head"]>>,
     cluster |-> <<[domain_name |-> "cluster.example.com"]>>,
     discovery_networks |-> <<(<<PlainDiscoveryNetwork>>)>>,
     dns |-> <<[site |-> "10.0.0.1", public |-> "8.8.8.8"]>>,
     images |-> PlainConfig.images,
     deployment |-> <<>>]

InitDiscovery ==
    /\ virtual_nodes = AccountNodes
    /\ virtual_blades = AccountBlades
    /\ virtual_networks = PlainNetworks
    /\ config \in {[ValidConfig EXCEPT !.discovery_networks = block] :
                      block \in DiscoveryBlocks}
    /\ Unconstructed

\* prepare() is idempotent: one call
PrepareOnce == ~prepared /\ Prepare

\* validate() changes no state: one call after any other call
ValidateOnce == prepared /\ outcome.op # "validate" /\ Validate

\* one consolidate(), before or after the other calls
FirstConsolidate == calls.consolidate = 0 /\ ConsolidateBegin

NextDiscovery ==
    \/ FirstConsolidate
    \/ SetNodeXname
    \/ ConsolidateFinish
    \/ PrepareOnce
    \/ ValidateOnce

SpecDiscovery == InitDiscovery /\ [][NextDiscovery]_vars


\* the consolidate() step that filters the block, on a call that returns
ConsolidateFilters ==
    /\ pc = "set_node_xnames" /\ pc' = "idle"
    /\ outcome'.op = "consolidate" /\ outcome'.raised = NoException

\* the discovery network is in the block after the step
Remains(network) ==
    \E j \in 1..Len(DiscoveryNetworks') : DiscoveryNetworks'[j].name = network.name

NamesAbsentNetwork(network) ==
    network.network_name # None /\ network.network_name \notin Range(network_names)

\* C13, the step: consolidate() drops every discovery network whose
\* network_name is set to a name absent from the virtual-network directory and
\* keeps every one whose network_name is in the directory.
C13_FilterStep ==
    ConsolidateFilters
    => \A i \in 1..Len(DiscoveryNetworks) :
           /\ NamesAbsentNetwork(DiscoveryNetworks[i]) => ~Remains(DiscoveryNetworks[i])
           /\ DiscoveryNetworks[i].network_name \in Range(network_names)
                 => Remains(DiscoveryNetworks[i])

\* C13, the states: after consolidate() no discovery network of the
\* configuration names a network absent from the directory.
C13_FilteredState ==
    ConsolidateSucceeded
    => \A i \in 1..Len(DiscoveryNetworks) : ~NamesAbsentNetwork(DiscoveryNetworks[i])

\* C13: after consolidate(), no discovery network whose network_name is
\* absent from the virtual-network directory remains in the configuration,
\* and every one whose network_name is in the directory remains.
C13_AbsentDroppedPresentKept == []C13_FilteredState /\ [][C13_FilterStep]_vars

\* "d1" named an absent network and is gone, "d2" names "net0" and remains
C13_Witness ==
    /\ ConsolidateSucceeded
    /\ Len(DiscoveryNetworks) = 1
    /\ DiscoveryNetworks[1].name = DiscoveryName(2)
    /\ DiscoveryNetworks[1].network_name = "net0"

\* C14 (as claimed), the step: consolidate() keeps every discovery network
\* whose network_cidr is set, whatever its other fields contain.
C14_CidrKeptStep ==
    ConsolidateFilters
    => \A i \in 1..Len(DiscoveryNetworks) :
           DiscoveryNetworks[i].network_cidr # None => Remains(DiscoveryNetworks[i])

\* C14 (as claimed): consolidate() never drops a discovery network whose
\* network_cidr is set, whatever its other fields contain.
C14_CidrNeverDropped == [][C14_CidrKeptStep]_vars

\* C14 (amended), the step: consolidate() keeps every discovery network whose
\* network_cidr is set, unless its network_name is also set and names a
\* network absent from the directory.
C14_CidrKeptUnlessNameAbsentStep ==
    ConsolidateFilters
    => \A i \in 1..Len(DiscoveryNetworks) :
           (/\ DiscoveryNetworks[i].network_cidr # None
            /\ ~NamesAbsentNetwork(DiscoveryNetworks[i]))
           => Remains(DiscoveryNetworks[i])

\* C14 (amended): consolidate() never drops a discovery network whose
\* network_cidr is set and whose network_name is unset or names a network of
\* the directory, whatever its credentials contain.
C14_CidrKeptUnlessNameAbsent == [][C14_CidrKeptUnlessNameAbsentStep]_vars

\* "d1" was dropped; "d2", CIDR-only and without credentials, remains
C14_Witness ==
    /\ ConsolidateSucceeded
    /\ Len(DiscoveryNetworks) = 1
    /\ DiscoveryNetworks[1].name = DiscoveryName(2)
    /\ DiscoveryNetworks[1].network_name = None
    /\ DiscoveryNetworks[1].network_cidr # None
    /\ DiscoveryNetworks[1].redfish_username = None


ValidateEnded == outcome.op = "validate"

\* exactly one of network_name / network_cidr, and both credentials
WellFormedNetwork(network) ==
    /\ (network.network_name = None) # (network.network_cidr = None)
    /\ network.redfish_username # None
    /\ network.redfish_password # None

WellFormedBlock ==
    /\ config.discovery_networks # <<>>
    /\ DiscoveryNetworks # <<>>
    /\ \A i \in 1..Len(DiscoveryNetworks) : WellFormedNetwork(DiscoveryNetworks[i])

\* C19: validate() on a prepared application passes only if the
\* discovery_networks block is non-empty and every network in it has exactly
\* one of network_name / network_cidr and both redfish_username and
\* redfish_password; otherwise it fails with ContextualError.
C19_DiscoveryNetworksChecked ==
    (ValidateEnded /\ prepared)
    => /\ outcome.raised = NoException => WellFormedBlock
       /\ ~WellFormedBlock => outcome.raised.type = "ContextualError"

\* validate() refused a block whose second network has both a network name
\* and a CIDR, the first one being well formed
C19_Witness ==
    /\ ValidateEnded /\ prepared
    /\ outcome.raised.type = "ContextualError"
    /\ Len(DiscoveryNetworks) = 2
    /\ WellFormedNetwork(DiscoveryNetworks[1])
    /\ DiscoveryNetworks[2].network_name # None
    /\ DiscoveryNetworks[2].network_cidr # None
    /\ DiscoveryNetworks[2].redfish_username # None
    /\ DiscoveryNetworks[2].redfish_password # None

-----------------------------------------------------------------------------
\* Specification SpecBmcs: __tpl_data_quadlet_bmcs over every small topology
\* of managed and management node classes hosted on two blade classes, each
\* with its own number of blades and XNAMEs, wired or not to the networks
\* that up to MaxDiscovery discovery networks name.

MaxBlades == 2       \* a blade class has 0..MaxBlades blades

BmcNodeInfos ==
    [node_role : {"managed", "management"},
     node_count : 0..1,
     blade_class : {"blade0", "blade1"},
     instance_capacity : {1},
     networks : {{"net0"}}]

BmcNodeDirectories ==
    UNION {{NodeDirectory(classes, info) : info \in [Range(classes) -> BmcNodeInfos]} :
           classes \in Enumerations(XnClassNames)}

\* blade0 with every number of blades and of XNAMEs, blade1 with a blade for
\* every XNAME
BmcBladeDirectories ==
    {[blade_class \in {"blade0", "blade1"} |->
         IF blade_class = "blade0"
         THEN [xnames |-> BladeXnameList(120, n), blade_count |-> count]
         ELSE BladeClass(BladeXnameList(121, MaxXnames))] :
        n \in 0..MaxXnames, count \in 0..MaxBlades}

\* net0 wired to any of the blade classes, net1 wired to both
BmcNetworkDirectories ==
    {<<[name |-> "net0", metadata |-> PlainNetworks[1].metadata,
        blade_classes |-> wired],
       [name |-> "net1", metadata |-> PlainNetworks[1].metadata,
        blade_classes |-> {"blade0", "blade1"}]>> :
        wired \in SUBSET {"blade0", "blade1"}}

\* the credentials of the i-th discovery network
BmcUsername(i) == IF i = 1 THEN "root1" ELSE "root2"
BmcPassword(i) == IF i = 1 THEN "secret1" ELSE "secret2"

\* 'discovery_networks' blocks: every entry names a network or is CIDR-only,
\* and has its own credentials
BmcDiscoveryBlocks ==
    {<<>>}
    \cup {<<[i \in 1..Len(names) |->
               [name |-> DiscoveryName(i),
                network_name |-> names[i],
                network_cidr |-> IF names[i] = None THEN "10.9.0.0/24" ELSE None,
                redfish_username |-> BmcUsername(i),
                redfish_password |-> BmcPassword(i)]]>> :
             names \in UNION {[1..n -> {None, "net0", "net1"}] : n \in 0..MaxDiscovery}}

InitBmcs ==
    /\ virtual_nodes \in BmcNodeDirectories
    /\ virtual_blades \in BmcBladeDirectories
    /\ virtual_networks \in BmcNetworkDirectories
    /\ config \in {[ValidConfig EXCEPT !.discovery_networks = block] :
                      block \in BmcDiscoveryBlocks}
    /\ Unconstructed

\* one call per run: the collector keeps no state between calls
BmcsCall ==
    /\ outcome = NoCall
    /\ outcome' = Finished("tpl_data_quadlet_bmcs", <<>>, tpl_data_quadlet_bmcs)
    /\ UNCHANGED <<virtual_nodes, virtual_blades, virtual_networks, config,
                   prepared, deploy_mode, tpl_data, pc, frame, connections,
                   requests, calls>>

NextBmcs == BmcsCall

SpecBmcs == InitBmcs /\ [][NextBmcs]_vars

BmcsReturned == outcome.op = "tpl_data_quadlet_bmcs"

\* the blade classes that host at least one managed node
HostsManagedNode(blade_class) ==
    \E i \in 1..Len(virtual_nodes.classes) :
        LET node_class == virtual_nodes.classes[i]
        IN /\ NodeRole(node_class) = "managed"
           /\ node_count(node_class) > 0
           /\ node_host_blade_info(node_class).blade_class = blade_class

\* the positions of the configured discovery networks wired to a blade class
WiredDiscovery(blade_class) ==
    {i \in 1..Len(DiscoveryNetworks) :
        HasBladeAddressing(blade_class, DiscoveryNetworks[i].network_name)}

\* the blade instances the map is to describe
BmcBlades ==
    {blade \in (DOMAIN virtual_blades) \X (0..(MaxBlades - 1)) :
        /\ blade[2] < blade_count(blade[1])
        /\ HostsManagedNode(blade[1])
        /\ WiredDiscovery(blade[1]) # {}}

FirstWiredDiscovery(blade_class) ==
    DiscoveryNetworks[CHOOSE i \in WiredDiscovery(blade_class) :
                          \A j \in WiredDiscovery(blade_class) : i <= j]

BmcEntriesOf(bmcs, blade) ==
    {i \in 1..Len(bmcs) : /\ bmcs[i].value.blade_class = blade[1]
                          /\ bmcs[i].value.blade_instance = blade[2]}

\* C20: the call returns a map that has exactly one entry per blade instance
\* of a blade class that hosts a managed node and has a configured discovery
\* network wired to it, keyed by the blade's XNAME and carrying the addresses
\* and credentials of the first such discovery network in configuration
\* order; the other blade instances have no entry, and nothing is raised
C20_OneEntryPerWiredBlade ==
    BmcsReturned =>
        /\ outcome.raised = NoException
        /\ LET bmcs == outcome.value[1]
           IN /\ \A blade \in BmcBlades : Cardinality(BmcEntriesOf(bmcs, blade)) = 1
              /\ \A i \in 1..Len(bmcs) :
                    LET blade == <<bmcs[i].value.blade_class, bmcs[i].value.blade_instance>>
                        first == FirstWiredDiscovery(blade[1])
                    IN /\ blade \in BmcBlades
                       /\ blade[2] < Len(BladeClassXnames(blade[1]))
                       /\ bmcs[i].key = BladeClassXnames(blade[1])[blade[2] + 1]
                       /\ bmcs[i].value.network =
                             [mac |-> BladeAddress(blade[1], first.network_name,
                                                   "AF_PACKET", blade[2]),
                              ipv4 |-> BladeAddress(blade[1], first.network_name,
                                                    "AF_INET", blade[2]),
                              redfish_username |-> first.redfish_username,
                              redfish_password |-> first.redfish_password]

\* a map of two blades was returned while a CIDR-only discovery network is
\* configured and some blade class in use has no wired discovery network
C20_Witness ==
    /\ BmcsReturned
    /\ outcome.raised = NoException
    /\ Len(outcome.value[1]) = 2
    /\ \E i \in 1..Len(DiscoveryNetworks) : DiscoveryNetworks[i].network_name = None
    /\ \E blade_class \in DOMAIN virtual_blades :
          HostsManagedNode(blade_class) /\ WiredDiscovery(blade_class) = {}

-----------------------------------------------------------------------------
\* Specification SpecRepeat: consolidate() called again and again, up to
\* MaxConsolidates times, over every small topology of managed and
\* management node classes that share the blades of blade0, which no other
\* call and no other party modifies.

RepeatNodeInfos ==
    [node_role : {"managed", "management"},
     node_count : 0..MaxCount,
     blade_class : {"blade0"},
     instance_capacity : 1..MaxCapacity,
     networks : {{"net0"}}]

RepeatNodeDirectories ==
    UNION {{NodeDirectory(classes, info) : info \in [Range(classes) -> RepeatNodeInfos]} :
           classes \in Enumerations(XnClassNames)}

InitRepeat ==
    /\ virtual_nodes \in RepeatNodeDirectories
    /\ virtual_blades \in BladeDirectories
    /\ virtual_networks = PlainNetworks
    /\ config = PlainConfig
    /\ Unconstructed

\* consolidate() once more, after the previous call has ended
ConsolidateAgain == calls.consolidate < MaxConsolidates /\ ConsolidateBegin

NextRepeat == ConsolidateAgain \/ SetNodeXname \/ ConsolidateFinish

SpecRepeat == InitRepeat /\ [][NextRepeat]_vars

\* the previous consolidate() returned, and this one is a later one
RunsAfterSuccess ==
    /\ pc = "set_node_xnames"
    /\ calls.consolidate >= 2
    /\ outcome.op = "consolidate" /\ outcome.raised = NoException

\* the NIDs of the managed nodes, as the template data computes them
ManagedNids ==
    LET managed_node_classes == node_classes_by_role("managed")
    IN [node \in {n \in DOMAIN virtual_nodes.names : n[1] \in Range(managed_node_classes)} |->
           nid_from_class_instance(managed_node_classes, node[1], node[2])]

\* C21, the steps of a consolidate() that follows one that returned: a node
\* name written is the name the node already has from the run before
C21_SameXnamesStep ==
    RunsAfterSuccess
    => /\ virtual_nodes'.names = virtual_nodes.names
       /\ \/ virtual_nodes'.set_calls = virtual_nodes.set_calls
          \/ \E node \in DOMAIN virtual_nodes.names :
                virtual_nodes'.set_calls =
                    Append(virtual_nodes.set_calls,
                           <<node[1], node[2], virtual_nodes.names[node]>>)

\* C21, the NIDs: no step of any run changes the NID of a managed node
C21_SameNidsStep == ManagedNids' = ManagedNids

\* C21, the states: a consolidate() that returns after one that returned has
\* written every node, each with the name it has
C21_RewrittenState ==
    (/\ pc = "idle" /\ calls.consolidate >= 2
     /\ outcome.op = "consolidate" /\ outcome.raised = NoException)
    => \A node \in DOMAIN virtual_nodes.names :
          \E k \in 1..Len(virtual_nodes.set_calls) :
              virtual_nodes.set_calls[k] = <<node[1], node[2], virtual_nodes.names[node]>>

\* C21: consolidate() run twice in a row on an unmodified topology writes in
\* the second run the XNAME every node got in the first, and the NID of every
\* managed node is the same before and after each run.
C21_RepeatedConsolidate ==
    /\ [][C21_SameXnamesStep /\ C21_SameNidsStep]_vars
    /\ []C21_RewrittenState

\* the second consolidate() has returned, having written three nodes of two
\* node classes that share a blade, one of them managed with NID 1
C21_Witness ==
    /\ pc = "idle" /\ calls.consolidate = 2
    /\ outcome.op = "consolidate" /\ outcome.raised = NoException
    /\ Len(virtual_nodes.set_calls) = 3
    /\ Len(virtual_nodes.classes) = 2
    /\ \E node \in DOMAIN ManagedNids : ManagedNids[node].value = <<1>>
    /\ \E k \in 1..3 : virtual_nodes.set_calls[k][3] = <<120, 49, ch_n, ch_0 + 2>>

-----------------------------------------------------------------------------
\* Specification Spec: the API calls of one Application object, in any order,
\* over a few topologies and configurations.

\* a managed class "ab" and the management class "a" that hosts the application
LifecycleNodes ==
    {NodeDirectory(<<(<<97, 98>>), (<<97>>)>>,
        (<<97, 98>> :> [node_role |-> "managed", node_count |-> MaxCount,
                        blade_class |-> "blade0", instance_capacity |-> capacity,
                        networks |-> {"net0"}])
        @@ (<<97>> :> [node_role |-> "management", node_count |-> 1,
                       blade_class |-> "blade0", instance_capacity |-> 1,
                       networks |-> {"net0"}])) :
        capacity \in 1..MaxCapacity}

UntaggedNetworks ==
    <<[name |-> "net0",
       metadata |-> [cluster_network |-> "absent", management_network |-> "absent",
                     coredhcp |-> PlainPool],
       blade_classes |-> {"blade0", "blade1"}]>>

SpareDiscoveryNetwork ==
    [name |-> "spare", network_name |-> "net9", network_cidr |-> None,
     redfish_username |-> "root", redfish_password |-> None]

FullConfig ==
    [host |-> <<[network |-> "net0", node_class |-> <<(<<97>>)>>, node_name |-> "head"]>>,
     cluster |-> <<[domain_name |-> "cluster.example.com"]>>,
     discovery_networks |->
         <<(<<[PlainDiscoveryNetwork EXCEPT !.redfish_password = None],
              SpareDiscoveryNetwork>>)>>,
     dns |-> <<[site |-> "10.0.0.1", public |-> "8.8.8.8"]>>,
     images |-> <<[builders |-> <<[name |-> "base",
                                   cmds |-> <<[cmd |-> "declared", arg |-> <<"dnf">>]>>]>>,
                   build_order |-> <<"base">>,
                   groups |-> <<[name |-> "base",
                                 entries |-> <<[name |-> "admins"]>>]>>,
                   users |-> <<[name |-> "base",
                                entries |-> <<[name |-> "ops", password |-> "hash",
                                               primary_group |-> "admins",
                                               supplementary_groups |-> <<>>]>>]>>]>>,
     deployment |-> <<>>]

\* a build_order that names an image tag no builder has
GhostOrderConfig == [FullConfig EXCEPT !.images[1].build_order = <<"base", "ghost">>]

LifecycleConfigs ==
    {[FullConfig EXCEPT !.host = host, !.deployment = deployment] :
        host \in {<<>>, FullConfig.host},
        deployment \in {<<>>, <<[mode |-> "quadlet"]>>, <<[mode |-> "bare"]>>,
                        <<[mode |-> "podman"]>>}}
    \cup {GhostOrderConfig}

Init ==
    /\ virtual_nodes \in LifecycleNodes
    /\ virtual_blades \in BladeDirectories
    /\ virtual_networks \in {PlainNetworks, UntaggedNetworks}
    /\ config \in LifecycleConfigs
    /\ Unconstructed

Consolidate == calls.consolidate < MaxConsolidates /\ ConsolidateBegin

Deploy == calls.deploy < MaxDeploys /\ DeployBegin

Next ==
    \/ Prepare
    \/ Validate
    \/ Consolidate
    \/ SetNodeXname
    \/ ConsolidateFinish
    \/ Deploy
    \/ DeployConnect
    \/ DeployRequest
    \/ DeployReturn
    \/ DeployDisconnect
    \/ Remove

Spec == Init /\ [][Next]_vars

\* the state of the program and of the layers, but for the readiness flag
ButReadiness ==
    <<virtual_nodes, virtual_blades, virtual_networks, config, deploy_mode,
      tpl_data, connections, requests>>

IsStateError(exception) ==
    /\ exception.type = "ContextualError"
    /\ exception.msg \in {"cannot validate an unprepared application, call prepare() first",
                          "cannot deploy an unprepared application, call prepare() first"}

\* C1, the states: while prepare() has not been called, a validate(),
\* deploy() or remove() that ended has raised the state error, no connection
\* set is open and no request has been issued.
C1_UnpreparedState ==
    ~prepared =>
        /\ outcome.op \in {"validate", "deploy", "remove"}
              => IsStateError(outcome.raised)
        /\ connections = {}
        /\ requests = <<>>
        /\ deploy_mode = None /\ tpl_data = <<>>

\* C1, the steps: a validate(), deploy() or remove() made before prepare()
\* ends at once and changes neither the configuration nor the node names nor
\* the connection sets nor the requests; prepare() changes only the flag.
C1_UnpreparedStep ==
    /\ (~prepared /\ pc = "idle"
          /\ \/ outcome' # outcome /\ outcome'.op \in {"validate", "deploy", "remove"}
             \/ calls'.deploy # calls.deploy)
       => (/\ pc' = "idle" /\ ~prepared'
           /\ IsStateError(outcome'.raised)
           /\ UNCHANGED ButReadiness)
    /\ (pc = "idle" /\ outcome'.op = "prepare" /\ (outcome' # outcome \/ prepared' # prepared))
       => (prepared' /\ pc' = "idle" /\ UNCHANGED ButReadiness)

\* C1: before prepare(), validate(), deploy() and remove() fail at once with
\* the state error, open no connection set, issue no request and leave the
\* configuration and the node names unchanged; prepare() only sets the flag.
C1_FailFastUnprepared == []C1_UnpreparedState /\ [][C1_UnpreparedStep]_vars

\* deploy() called, and refused, after a consolidate() and before prepare()
C1_Witness ==
    /\ ~prepared
    /\ calls.consolidate > 0
    /\ outcome.op = "deploy"
    /\ IsStateError(outcome.raised)

-----------------------------------------------------------------------------
\* The deployment mode of deploy().

\* the mode the configuration asks for
ExpectedMode ==
    IF config.deployment = <<>> THEN "quadlet" ELSE config.deployment[1].mode

\* deploy() is entered on a prepared application
DeployEntered == prepared /\ pc = "idle" /\ calls'.deploy # calls.deploy

\* C15, the states: the mode deploy() has chosen is 'quadlet' when the
\* configuration has no mode, else the configured mode; with a mode other
\* than 'quadlet' and 'bare' no template data is kept and no request issued,
\* and with 'quadlet' or 'bare' the template data and the requests are those
\* of that mode.
C15_ModeState ==
    deploy_mode # None
    => /\ prepared
       /\ deploy_mode = ExpectedMode
       /\ ExpectedMode \notin {"quadlet", "bare"}
             => /\ tpl_data = <<>> /\ requests = <<>> /\ connections = {}
                /\ pc \notin {"connect", "deploy_files"}
       /\ (ExpectedMode = "bare" /\ tpl_data # <<>>)
             => /\ "hosting_config" \in tpl_data[1].keys
                /\ {"nodes", "image_builders"} \cap tpl_data[1].keys = {}
       /\ (ExpectedMode = "quadlet" /\ tpl_data # <<>>)
             => {"hosting_config", "nodes", "image_builders"} \subseteq tpl_data[1].keys

\* C15, the steps: deploy() on a prepared application sets the mode, and
\* with a mode other than 'quadlet' and 'bare' ends at once with the
\* ContextualError that names the recognized modes.
C15_ModeStep ==
    DeployEntered
    => /\ deploy_mode' = ExpectedMode
       /\ ExpectedMode = "podman"
             => outcome' = Finished("deploy", <<>>, Raise(ContextualError(
                    "unrecognized deployment mode 'podman' configured - recognized modes are: 'quadlet', and 'bare'")))
       /\ (ExpectedMode \in {"quadlet", "bare"} /\ pc' = "connect")
             => /\ tpl_data' # <<>>
                /\ frame'.files = DeploymentFiles(ExpectedMode)[1]
                /\ frame'.management_node_files = DeploymentFiles(ExpectedMode)[2]

\* C15: deploy() on a prepared application uses mode 'quadlet' when the
\* configuration has no mode, the configured mode when it is 'quadlet' or
\* 'bare', and fails with the ContextualError naming the recognized modes for
\* any other mode.
C15_ModeSelection == []C15_ModeState /\ [][C15_ModeStep]_vars

\* deploy() without a configured mode has issued the requests of the quadlet
\* manifests and returned
C15_Witness ==
    /\ config.deployment = <<>>
    /\ deploy_mode = "quadlet"
    /\ outcome = Finished("deploy", <<>>, Return(None))
    /\ \E k \in 1..Len(requests) : requests[k].dest = "/root/config.yaml"

-----------------------------------------------------------------------------
\* The deployment driver: the requests of deploy().

\* the requests a manifest asks for on the connection set of a stage: for
\* every entry copy_to, chmod, and the run of the destination if the entry
\* has the run flag
RECURSIVE ExpectedRequests(_, _)
ExpectedRequests(files, stage) ==
    IF files = <<>> THEN <<>>
    ELSE <<CopyToRequest(Head(files), stage), ChmodRequest(Head(files), stage)>>
         \o (IF Head(files).run THEN <<RunRequest(Head(files), stage)>> ELSE <<>>)
         \o ExpectedRequests(Tail(files), stage)

\* the requests of a whole deploy(): the blade manifest, then the node manifest
ExpectedDeployRequests ==
    ExpectedRequests(DeploymentFiles(deploy_mode)[1], "blades")
    \o ExpectedRequests(DeploymentFiles(deploy_mode)[2], "nodes")

IsPrefix(short, long) ==
    Len(short) <= Len(long) /\ SubSeq(long, 1, Len(short)) = short

DeployReturned == pc = "idle" /\ outcome = Finished("deploy", <<>>, Return(None))

RequestFailed ==
    /\ pc = "idle"
    /\ outcome = Finished("deploy", <<>>, Raise(ContextualError("request failed")))

\* C16, the states: the requests issued are, entry by entry in manifest
\* order, one copy_to, one chmod run_command and one run_command of the
\* destination if and only if the entry has the run flag; all of them when
\* deploy() has returned.
C16_RequestsState ==
    /\ requests # <<>> => deploy_mode \in RecognizedModes
    /\ deploy_mode \in RecognizedModes => IsPrefix(requests, ExpectedDeployRequests)
    /\ DeployReturned => requests = ExpectedDeployRequests

\* C16, the steps: a request is issued only when no request is outstanding,
\* and is outstanding until it returns.
C16_RequestsStep ==
    /\ (requests' # requests /\ requests' # <<>>)
       => /\ pc = "deploy_files" /\ pc' = "awaiting"
          /\ Len(requests') = Len(requests) + 1
          /\ SubSeq(requests', 1, Len(requests)) = requests
    /\ pc = "awaiting" => requests' = requests

\* C16: for every manifest passed to the deployment driver the requests are,
\* entry by entry in manifest order, copy_to, then chmod, then the run of the
\* destination iff the run flag is set, and no request is issued before the
\* one before it has returned.
C16_SequentialRequests == []C16_RequestsState /\ [][C16_RequestsStep]_vars

\* a quadlet deploy() that returned: the node manifest has an entry without
\* the run flag followed by one with it
C16_Witness ==
    /\ DeployReturned
    /\ deploy_mode = "quadlet"
    /\ Len(requests) = 8
    /\ requests[5].call = "run_command" /\ requests[6].call = "copy_to"

\* C17, the states: after a request has failed, the requests issued are the
\* ones up to the failed one, each issued once.
C17_FailedState ==
    RequestFailed
    => /\ requests # <<>>
       /\ IsPrefix(requests, ExpectedDeployRequests)
       /\ \A i, j \in 1..Len(requests) : requests[i] = requests[j] => i = j

\* C17, the steps: the failure of a request ends deploy() at once with the
\* exception and without a further request; requests are issued only inside
\* a deploy() call, which none of the other calls undoes.
C17_FailedStep ==
    /\ (pc = "awaiting" /\ pc' # "deploy_files")
       => /\ pc' = "idle"
          /\ outcome'.op = "deploy" /\ outcome'.raised # NoException
          /\ requests' = requests
    /\ (pc \notin {"deploy_files", "awaiting"} /\ ~(calls'.deploy # calls.deploy))
       => requests' = requests

\* C17: when a copy_to or run_command fails, deploy() raises at once: no
\* further request is issued, the failed request is not retried and the
\* requests completed before are not undone.
C17_FailurePropagates == []C17_FailedState /\ [][C17_FailedStep]_vars

\* a quadlet deploy() whose copy_to of the second node manifest entry failed
C17_Witness ==
    /\ RequestFailed
    /\ deploy_mode = "quadlet"
    /\ Len(requests) = 6
    /\ requests[6].call = "copy_to" /\ requests[6].stage = "nodes"

\* C18: no connection set is open when no deploy() is running, whatever the
\* way deploy() ended; while deploy() runs, only the connection set of its
\* current manifest is open.
C18_ConnectionsReleased ==
    /\ pc \notin {"deploy_files", "awaiting"} => connections = {}
    /\ pc \in {"deploy_files", "awaiting"} => connections = {frame.stage}

\* deploy() raised after a run_command on the blade connection set failed
C18_Witness ==
    /\ RequestFailed
    /\ connections = {}
    /\ Len(requests) = 2
    /\ requests[2].call = "run_command" /\ requests[2].stage = "blades"

-----------------------------------------------------------------------------
\* The node names of the cluster layer.

NodeNames == virtual_nodes.names

\* the entries of SetCalls that write node
WritesOf(node) == {k \in 1..Len(SetCalls) : CallClass(k) = node[1] /\ CallInstance(k) = node[2]}

\* C22, the writes: a node name is written only by a pass of the loop of
\* __set_node_xnames inside consolidate(), one node per pass, and a pass is
\* the only step that adds to the writes of the call
C22_WriteStep ==
    /\ NodeNames' # NodeNames
       => /\ pc = "set_node_xnames" /\ pc' = "set_node_xnames"
          /\ \E node \in DOMAIN NodeNames :
                /\ \A other \in DOMAIN NodeNames \ {node} : NodeNames'[other] = NodeNames[other]
                /\ SetCalls' = Append(SetCalls, <<node[1], node[2], NodeNames'[node]>>)
    /\ (SetCalls' # SetCalls /\ SetCalls' # <<>>) => pc = "set_node_xnames"
    /\ pc # "set_node_xnames" => NodeNames' = NodeNames

\* C22, the states: no consolidate() writes a node twice, and one that
\* returned has written every node once
C22_OnceState ==
    /\ \A node \in DOMAIN NodeNames : Cardinality(WritesOf(node)) <= 1
    /\ (ConsolidateSucceeded /\ pc = "idle")
       => \A node \in DOMAIN NodeNames : Cardinality(WritesOf(node)) = 1

\* C22, the reads: the 'nodes' template data that deploy() assembles after a
\* consolidate() carries for every node the name the cluster layer has for
\* it, which is the name consolidate() wrote
C22_ReadStep ==
    (tpl_data' # tpl_data /\ "nodes" \in tpl_data'[1].keys /\ calls.consolidate > 0)
    => LET nodes == tpl_data'[1].nodes
           order == XnameLoopOrder(bmc_xnames_by_node_class(node_classes_by_role("managed")))
       IN /\ pc = "idle" /\ calls'.deploy = calls.deploy + 1
          /\ Len(nodes) = Len(order)
          /\ \A k \in 1..Len(nodes) :
                /\ nodes[k].node_class = order[k][1]
                /\ nodes[k].name = NodeNames[order[k]]
                /\ nodes[k].xname = NodeNames[order[k]]
                /\ \E j \in WritesOf(order[k]) : CallXname(j) = nodes[k].xname

\* C22: node names are written only by consolidate(), one successful
\* consolidate() writes the name of every node exactly once; prepare(),
\* validate(), deploy() and remove() write no node name, and the template
\* data deploy() assembles reads the names consolidate() wrote.
C22_NamesWrittenByConsolidate ==
    /\ [][C22_WriteStep /\ C22_ReadStep]_vars
    /\ []C22_OnceState

\* a quadlet deploy() that follows a consolidate() has assembled the
\* template data of two managed nodes, the second named "x1n1"
C22_Witness ==
    /\ outcome.op = "deploy"
    /\ calls.consolidate = 1
    /\ tpl_data # <<>>
    /\ Len(tpl_data[1].nodes) = 2
    /\ tpl_data[1].nodes[2].xname = <<120, 49, ch_n, ch_0 + 1>>
    /\ Len(SetCalls) = 3

-----------------------------------------------------------------------------
\* The slot counters of __set_node_xnames (SpecXnames).

\* the number of times a blade class lists blade_xname
Listed(blade_class, blade_xname) ==
    Cardinality({i \in 1..Len(BladeClassXnames(blade_class)) :
                    BladeClassXnames(blade_class)[i] = blade_xname})

\* the blade classes in use that list blade_xname
ListingBladeClasses(blade_xname) ==
    {virtual_nodes.info[c].blade_class : c \in Range(virtual_nodes.classes)}
    \cap {blade_class \in DOMAIN virtual_blades : Listed(blade_class, blade_xname) > 0}

\* the nodes the classes of node_classes can put on the blades named
\* blade_xname: instance_capacity for every time the hosting blade class
\* lists it
RECURSIVE BladeRoom(_, _)
BladeRoom(node_classes, blade_xname) ==
    IF node_classes = <<>> THEN 0
    ELSE Capacity(Head(node_classes))
            * Listed(virtual_nodes.info[Head(node_classes)].blade_class, blade_xname)
         + BladeRoom(Tail(node_classes), blade_xname)

\* C23 (as claimed): at every point of XNAME assignment the slot counter of
\* each blade XNAME is at most the length of the XNAME list configured for
\* the blade's class.
C23_SlotsWithinListLength ==
    AssigningXnames
    => \A blade_xname \in DOMAIN frame.xname_slots :
          \A blade_class \in ListingBladeClasses(blade_xname) :
              frame.xname_slots[blade_xname] <= Len(BladeClassXnames(blade_class))

\* C23 (amended): at every point of XNAME assignment the slot counter of
\* each blade XNAME is at most the number of nodes the node classes can put
\* on that blade: the sum, over the node classes, of instance_capacity for
\* every time the hosting blade class lists the XNAME.
C23_SlotsWithinCapacity ==
    AssigningXnames
    => \A blade_xname \in DOMAIN frame.xname_slots :
          frame.xname_slots[blade_xname]
              <= BladeRoom(virtual_nodes.classes, blade_xname)

\* the counter of a blade of a one-XNAME list stands at 2, one class of
\* capacity 2 having filled the blade
C23_Witness ==
    /\ AssigningXnames
    /\ Len(virtual_nodes.classes) = 1
    /\ \E blade_xname \in DOMAIN frame.xname_slots :
          /\ frame.xname_slots[blade_xname] = 2
          /\ BladeRoom(virtual_nodes.classes, blade_xname) = 2
          /\ \A blade_class \in ListingBladeClasses(blade_xname) :
                Len(BladeClassXnames(blade_class)) = 1

-----------------------------------------------------------------------------
\* The class list of __nid_from_class_instance (SpecNid).

\* C24: the NID of a (class, instance) does not depend on the order of the
\* class list: the call returns, or raises, the same for every permutation of
\* the list it was given.
C24_OrderIndependent ==
    IsNidCall =>
        \A classes \in Orderings(Range(NidArgClasses)) :
            nid_from_class_instance(classes, NidArgClass, NidArgInstance)
                = [raised |-> outcome.raised, value |-> outcome.value]

\* a NID was returned for a class list of three classes given in an order
\* that is neither sorted nor reverse sorted, the class not being the first
\* of the sorted list
C24_Witness ==
    /\ IsNidCall
    /\ outcome.raised = NoException
    /\ Len(NidArgClasses) = 3
    /\ NidArgClasses[2] = ListSort(NidArgClasses)[1]
    /\ NidArgClass # ListSort(NidArgClasses)[1]
    /\ node_count(ListSort(NidArgClasses)[1]) > 0
    /\ outcome.value[1] > NidArgInstance + 1

-----------------------------------------------------------------------------
\* The XNAMEs of different nodes (SpecXnames).

\* C25: after a successful consolidate() no two nodes, of the same or of
\* different node classes, managed or management, have the same xname: the
\* pair (blade XNAME, slot) is different for every node.
C25_NoSharedXname ==
    ConsolidateSucceeded
    => /\ \A node, other \in DOMAIN NodeNames :
             NodeNames[node] = NodeNames[other] => node = other
       /\ \A j, k \in 1..Len(SetCalls) :
             (/\ HostBladeXname(CallClass(j), CallInstance(j))
                    = HostBladeXname(CallClass(k), CallInstance(k))
              /\ XnameSlot(CallXname(j)) = XnameSlot(CallXname(k)))
             => j = k

\* a managed and a management class share a blade that holds three nodes,
\* and another blade holds a node as well
C25_Witness ==
    /\ ConsolidateSucceeded
    /\ \E j, k \in 1..Len(SetCalls) :
          /\ IsManaged(CallClass(j)) /\ ~IsManaged(CallClass(k))
          /\ XnameBlade(CallXname(j)) = XnameBlade(CallXname(k))
          /\ XnameSlot(CallXname(k)) = 2
    /\ \E j, k \in 1..Len(SetCalls) : XnameBlade(CallXname(j)) # XnameBlade(CallXname(k))

-----------------------------------------------------------------------------
\* Specification SpecNodes: one consolidate() over the topologies of
\* SpecXnames and, when it has returned, the 'nodes' template data of the
\* quadlet mode.

\* one call per run, after the consolidate() call
NodesCall ==
    /\ pc = "idle"
    /\ outcome.op = "consolidate" /\ outcome.raised = NoException
    /\ outcome' = Finished("tpl_data_quadlet_nodes", <<>>, tpl_data_quadlet_nodes)
    /\ UNCHANGED <<virtual_nodes, virtual_blades, virtual_networks, config,
                   prepared, deploy_mode, tpl_data, pc, frame, connections,
                   requests, calls>>

NextNodes == ConsolidateOnce \/ SetNodeXname \/ ConsolidateFinish \/ NodesCall

SpecNodes == InitXnames /\ [][NextNodes]_vars

NodesReturned == outcome.op = "tpl_data_quadlet_nodes"

\* C26: in the quadlet 'nodes' data built after a successful consolidate(),
\* the bmc_xname of every entry is the blade XNAME from which the node's
\* xname was formed, xname = bmc_xname + 'n' + slot: the blade index at
\* template time is the one of XNAME assignment; the data has an entry for
\* every managed node consolidate() named on a blade.
C26_BmcXnameOfNode ==
    NodesReturned
    => /\ outcome.raised = NoException
       /\ LET nodes == outcome.value[1]
              managed == {j \in 1..Len(SetCalls) : IsManaged(CallClass(j))}
          IN /\ Len(nodes) = Cardinality(managed)
             /\ \A k \in 1..Len(nodes) :
                   /\ nodes[k].xname
                         = nodes[k].bmc_xname
                              \o <<ch_n, ch_0 + XnameSlot(nodes[k].xname)>>
                   /\ \E j \in managed :
                         /\ CallClass(j) = nodes[k].node_class
                         /\ CallXname(j) = nodes[k].xname
                         /\ HostBladeXname(CallClass(j), CallInstance(j))
                               = nodes[k].bmc_xname

\* the data of managed nodes of two classes: the second node of a class of
\* capacity 2 is on the first blade of its class, the second node of a class
\* of capacity 1 on the second blade
C26_Witness ==
    /\ NodesReturned
    /\ outcome.raised = NoException
    /\ \E k \in 1..Len(outcome.value[1]) :
          /\ Capacity(outcome.value[1][k].node_class) = 2
          /\ outcome.value[1][k].bmc_xname = <<120, ch_0 + 1>>
          /\ outcome.value[1][k].xname = <<120, ch_0 + 1, ch_n, ch_0 + 1>>
    /\ \E k \in 1..Len(outcome.value[1]) :
          /\ Capacity(outcome.value[1][k].node_class) = 1
          /\ outcome.value[1][k].bmc_xname = <<121, ch_0 + 2>>
          /\ outcome.value[1][k].xname = <<121, ch_0 + 2, ch_n, ch_0>>

-----------------------------------------------------------------------------
\* deploy() before its first connection.

\* deploy() is running past its first statements
DeployRunning == pc \in {"connect", "deploy_files", "awaiting"}

\* what the configuration and the directories lack for the template data of
\* the mode: a recognized mode, the host block and its addressing, a network
\* tagged as cluster network, a build_order of declared image tags
UnknownMode == ExpectedMode \notin {"quadlet", "bare"}
MissingAddressing ==
    \/ config.host = <<>>
    \/ ~HasNodeAddressing(config.host[1].node_class, config.host[1].network)
MissingTaggedNetwork == TaggedNetworks("cluster_network") = <<>>
BadBuildOrder ==
    /\ ExpectedMode = "quadlet"
    /\ \E i \in 1..Len(ImagesGet("build_order", <<>>)) :
          ImagesGet("build_order", <<>>)[i]
              \notin Range(BuilderTags(ImagesGet("builders", <<>>)))

DeployCannotStart ==
    UnknownMode \/ MissingAddressing \/ MissingTaggedNetwork \/ BadBuildOrder

\* C27, the steps: a deploy() on a prepared application that lacks one of
\* these ends in its first step, raising, with no connection set open and no
\* request issued; and every deploy() that ends before its first connection
\* ends so
C27_FailsBeforeConnectingStep ==
    /\ (DeployEntered /\ DeployCannotStart)
       => /\ pc' = "idle"
          /\ outcome'.op = "deploy" /\ outcome'.raised # NoException
    /\ (DeployEntered /\ pc' = "idle")
       => /\ outcome'.op = "deploy" /\ outcome'.raised # NoException
          /\ connections = {} /\ connections' = {}
          /\ requests' = <<>>
    /\ connections' # connections => (DeployRunning /\ ~DeployCannotStart)
    /\ (requests' # requests /\ requests' # <<>>) => (DeployRunning /\ ~DeployCannotStart)

\* C27, the states: while deploy() connects and issues requests the mode is
\* resolved, the template data of the mode assembled and the manifests of
\* the mode selected; connection sets and requests exist only then or after
C27_ResolvedBeforeConnectingState ==
    /\ DeployRunning
       => /\ deploy_mode = ExpectedMode /\ ~DeployCannotStart
          /\ tpl_data # <<>>
          /\ (deploy_mode = "quadlet") = ("nodes" \in tpl_data[1].keys)
          /\ frame.stage = "blades"
                => /\ frame.management_node_files = DeploymentFiles(deploy_mode)[2]
                   /\ \E n \in 0..Len(DeploymentFiles(deploy_mode)[1]) :
                         frame.files = SubSeq(DeploymentFiles(deploy_mode)[1], n + 1,
                                              Len(DeploymentFiles(deploy_mode)[1]))
    /\ connections # {} => DeployRunning
    /\ (outcome.op = "deploy" /\ pc = "idle" /\ DeployCannotStart)
       => /\ outcome.raised # NoException
          /\ connections = {} /\ requests = <<>>

\* C27: deploy() resolves the mode, assembles the whole template data and
\* selects the manifests before it opens a connection set: when one of these
\* fails (unknown mode, missing tagged network, missing addressing, bad
\* build_order) deploy() raises with no connection set opened and no copy_to
\* or run_command request issued.
C27_FailsBeforeConnecting ==
    /\ [][C27_FailsBeforeConnectingStep]_vars
    /\ []C27_ResolvedBeforeConnectingState

\* a quadlet deploy() raised over a build_order naming an undeclared tag,
\* after a consolidate() and with everything else in place
C27_Witness ==
    /\ outcome.op = "deploy" /\ pc = "idle"
    /\ outcome.raised = ContextualError("image build order contains an unknown image tag")
    /\ calls.consolidate > 0
    /\ ~UnknownMode /\ ~MissingAddressing /\ ~MissingTaggedNetwork
    /\ connections = {} /\ requests = <<>>

-----------------------------------------------------------------------------
\* The two stages of deploy().

BladeRequests == ExpectedRequests(DeploymentFiles(deploy_mode)[1], "blades")

NodeRequestIssued == \E i \in 1..Len(requests) : requests[i].stage = "nodes"

\* deploy() raised while its blade manifest was being deployed
BladeStageFailed ==
    /\ pc = "idle"
    /\ outcome.op = "deploy" /\ outcome.raised # NoException
    /\ requests # <<>>
    /\ ~IsPrefix(BladeRequests, requests)

\* C28, the states: at most one connection set is open; the node connection
\* set is open, and a request of the node manifest issued, only after every
\* request of the blade manifest; a deploy() that failed in the blade
\* manifest has issued no request of the node manifest.
C28_StagesState ==
    /\ Cardinality(connections) <= 1
    /\ ("nodes" \in connections \/ NodeRequestIssued)
       => /\ deploy_mode \in RecognizedModes
          /\ IsPrefix(BladeRequests, requests)
    /\ BladeStageFailed => (~NodeRequestIssued /\ connections = {})

\* C28, the steps: the node connection set is opened when the blade
\* connection set is closed and the blade manifest is complete; a failure on
\* the blade connection set ends deploy() at once, and the node connection
\* set is opened by a running deploy() only.
C28_StagesStep ==
    /\ ("nodes" \in connections' /\ "nodes" \notin connections)
       => /\ pc = "connect" /\ frame.stage = "nodes"
          /\ connections = {}
          /\ requests = BladeRequests
    /\ (DeployRunning /\ frame.stage = "blades" /\ pc' = "idle")
       => /\ outcome'.op = "deploy" /\ outcome'.raised # NoException
          /\ connections' = {}
          /\ requests' = requests /\ ~NodeRequestIssued
    /\ (DeployRunning /\ frame.stage = "blades" /\ pc' # "idle" /\ frame'.stage = "nodes")
       => /\ pc = "deploy_files" /\ frame.files = <<>>
          /\ requests = BladeRequests

\* C28: deploy() runs the blade manifest to completion on the blade
\* connection set before it opens the node connection set, at most one
\* connection set is open at any time, and when a request of the blade
\* manifest fails the node connection set is never opened and no request of
\* the node manifest is issued.
C28_BladesBeforeNodes == []C28_StagesState /\ [][C28_StagesStep]_vars

\* the node connection set is open, the blade manifest done and a request of
\* the node manifest outstanding
C28_Witness ==
    /\ connections = {"nodes"}
    /\ pc = "awaiting"
    /\ Len(requests) = Len(BladeRequests) + 1
    /\ requests[Len(requests)].stage = "nodes"

-----------------------------------------------------------------------------
\* Specification SpecRepeatAccounts: consolidate() called again and again, up
\* to MaxConsolidates times, on one Application object whose image builders
\* have named groups and users and up to two declared commands.

OtherDeclaredCommand == [cmd |-> "declared", arg |-> <<"make">>]

\* the images of SpecAccounts that have both builders and whose groups and
\* users all have names, the builder "base" with no or with two declared
\* commands
RepeatAccountImages ==
    {[images EXCEPT !.builders[1].cmds = cmds] :
        images \in {named \in AccountImages :
                       /\ Len(named.builders) = 2
                       /\ \A i \in 1..Len(named.groups[1].entries) :
                             named.groups[1].entries[i].name # None
                       /\ \A i \in 1..Len(named.users[1].entries) :
                             named.users[1].entries[i].name # None},
        cmds \in {<<>>, <<OtherDeclaredCommand, DeclaredCommand>>}}

InitRepeatAccounts ==
    /\ virtual_nodes = AccountNodes
    /\ virtual_blades = AccountBlades
    /\ virtual_networks = PlainNetworks
    /\ config \in {[PlainConfig EXCEPT !.images = <<images>>] :
                      images \in RepeatAccountImages}
    /\ Unconstructed

SpecRepeatAccounts == InitRepeatAccounts /\ [][NextRepeat]_vars

\* the commands of one kind in the list of builder k, in list order
CommandsOfKind(k, kind) ==
    SelectSeq(BuilderCommands(k), LAMBDA command : command.cmd = kind)

\* the groups and users configured for builder k
BuilderGroups(k) == EntriesFor(config.images[1].groups, config.images[1].builders[k].name)
BuilderUsers(k) == EntriesFor(config.images[1].users, config.images[1].builders[k].name)

\* every consolidate() so far has returned
AllReturned ==
    /\ pc = "idle"
    /\ calls.consolidate > 0
    /\ outcome.op = "consolidate" /\ outcome.raised = NoException

\* C29, the states: after k calls that returned, the list of every builder
\* has k group-add commands per configured group and k user-add commands per
\* configured user, all before the declared commands
C29_AccumulatedState ==
    AllReturned
    => \A k \in 1..Len(config.images[1].builders) :
          /\ Len(CommandsOfKind(k, "groupadd")) = calls.consolidate * Len(BuilderGroups(k))
          /\ Len(CommandsOfKind(k, "useradd")) = calls.consolidate * Len(BuilderUsers(k))
          /\ \A i \in 1..Len(BuilderGroups(k)) :
                Cardinality({j \in 1..Len(BuilderCommands(k)) :
                                BuilderCommands(k)[j]
                                    = [cmd |-> "groupadd", arg |-> <<BuilderGroups(k)[i].name>>]})
                   = calls.consolidate
                        * Cardinality({h \in 1..Len(BuilderGroups(k)) :
                                          BuilderGroups(k)[h] = BuilderGroups(k)[i]})
          /\ KindBefore(BuilderCommands(k), "groupadd", "declared")
          /\ KindBefore(BuilderCommands(k), "useradd", "declared")

\* C29, the steps: a call only adds commands at the front of a list: the
\* list before the step is the end of the list after it, so no earlier
\* command is removed and the declared commands stay last, in their order
C29_PrependStep ==
    /\ Len(config'.images[1].builders) = Len(config.images[1].builders)
    /\ \A k \in 1..Len(config.images[1].builders) :
          LET before == BuilderCommands(k)
              after == config'.images[1].builders[k].cmds
          IN /\ Len(after) >= Len(before)
             /\ SubSeq(after, Len(after) - Len(before) + 1, Len(after)) = before
             /\ \A i \in 1..(Len(after) - Len(before)) : after[i].cmd # "declared"

\* C29: every consolidate() prepends one group-add command per configured
\* group and one user-add command per configured user to the command list of
\* a builder and removes none: after k calls on one Application object the
\* list of each builder holds k generated commands per group and per user,
\* and the declared commands are still at the end in their original order.
C29_CommandsAccumulate == []C29_AccumulatedState /\ [][C29_PrependStep]_vars

\* two calls on a builder with two groups, one user and two declared
\* commands: four group-add, two user-add, then the declared commands
C29_Witness ==
    /\ AllReturned
    /\ calls.consolidate = 2
    /\ Len(BuilderGroups(1)) = 2 /\ Len(BuilderUsers(1)) = 1
    /\ Len(CommandsOfKind(1, "groupadd")) = 4
    /\ Len(CommandsOfKind(1, "useradd")) = 2
    /\ Len(BuilderCommands(1)) = 8
    /\ SubSeq(BuilderCommands(1), 7, 8) = <<OtherDeclaredCommand, DeclaredCommand>>

====
